---- MODULE Spec2Model ----
(***************************************************************************)
(* A model of aligner.js (src/unnamed/part_002): the alignment of a        *)
(* written script against a timestamped transcript.                        *)
(*                                                                         *)
(* Text is a sequence of one-character strings.  A token is such a         *)
(* sequence too.  Times are integers (tenths of a second).  A score, a     *)
(* real number in the code, is kept as the exact integer numerator of a    *)
(* fraction over SCALE, a common multiple of every denominator the three   *)
(* similarity signals produce on the texts drawn here; a confidence is an  *)
(* integer count of thousandths.                                           *)
(*                                                                         *)
(* The last specification, SpecServer, models the handlers of server.js    *)
(* (src/unnamed/part_000) on one project: each handler loads the project   *)
(* file, may await, and saves its own copy.                                *)
(***************************************************************************)
EXTENDS Integers, Sequences, FiniteSets, TLC

\* ------------------------------------------------------------ characters

\* /\s/ : the whitespace characters that occur in the texts of the model.
WhitespaceChars == {" ", "\t", "\n"}

\* /\w/ : [A-Za-z0-9_], restricted to the characters the model draws.
WordChars == {"a", "b", "c", "d", "e", "A", "B", "_"}

\* String.prototype.toLowerCase, character by character.
toLowerCaseChar(c) ==
    CASE c = "A" -> "a"
      [] c = "B" -> "b"
      [] OTHER -> c

MapLower(text) == [i \in 1..Len(text) |-> toLowerCaseChar(text[i])]

\* StripPunct that deletes the characters instead of putting a space.
StripPunctRemove(text) ==
    LET Keep(c) == c \in WordChars \/ c \in WhitespaceChars \/ c = "'"
    IN  SelectSeq(text, Keep)

\* .replace(/[^\w\s']/g, ' ')
StripPunct(text) ==
    [i \in 1..Len(text) |->
        IF text[i] \in WordChars \/ text[i] \in WhitespaceChars \/ text[i] = "'"
        THEN text[i] ELSE " "]

RECURSIVE DropLeadingSpace(_)
DropLeadingSpace(text) ==
    IF text # <<>> /\ Head(text) \in WhitespaceChars
    THEN DropLeadingSpace(Tail(text))
    ELSE text

RECURSIVE DropTrailingSpace(_)
DropTrailingSpace(text) ==
    IF text # <<>> /\ text[Len(text)] \in WhitespaceChars
    THEN DropTrailingSpace(SubSeq(text, 1, Len(text) - 1))
    ELSE text

\* String.prototype.trim
Trim(text) == DropTrailingSpace(DropLeadingSpace(text))

\* .replace(/\s+/g, ' ')
RECURSIVE CollapseSpace(_)
CollapseSpace(text) ==
    IF text = <<>> THEN <<>>
    ELSE IF Head(text) \in WhitespaceChars
         THEN <<" ">> \o CollapseSpace(DropLeadingSpace(text))
         ELSE <<Head(text)>> \o CollapseSpace(Tail(text))

\* String.prototype.split(sep) for a one-character separator: the pieces
\* between separators, empty pieces kept ("".split(sep) is one empty piece).
\* One step takes the text up to the first separator; cur is what the
\* piece under way already holds.
RECURSIVE SplitFrom(_, _, _)
SplitFrom(text, sep, cur) ==
    LET seps == { i \in 1..Len(text) : text[i] = sep }
    IN  IF seps = {} THEN <<cur \o text>>
        ELSE LET p == CHOOSE i \in seps : \A k \in seps : i <= k
             IN  <<cur \o SubSeq(text, 1, p - 1)>>
                 \o SplitFrom(SubSeq(text, p + 1, Len(text)), sep, <<>>)

Split(text, sep) == SplitFrom(text, sep, <<>>)

\* Array.prototype.join(' ') of a sequence of texts.
RECURSIVE JoinSpace(_)
JoinSpace(texts) ==
    IF texts = <<>> THEN <<>>
    ELSE IF Len(texts) = 1 THEN texts[1]
         ELSE texts[1] \o <<" ">> \o JoinSpace(Tail(texts))

\* ---------------------------------------------------- text normalization

normalize(text) == Trim(CollapseSpace(StripPunct(MapLower(text))))

tokenize(text) ==
    LET n == normalize(text)
    IN  IF n # <<>> THEN Split(n, " ") ELSE <<>>

\* The sentence split of a long line: .split(/(?<=[.!?])\s+/).  A run of
\* whitespace is a separator only when the character right before the run
\* is sentence-terminal; the whole run is then removed.
SentenceEnd == {".", "!", "?"}

RECURSIVE SentenceSplitFrom(_, _)
SentenceSplitFrom(text, cur) ==
    LET cuts == { i \in 1..Len(text) :
                    /\ text[i] \in WhitespaceChars
                    /\ IF i > 1 THEN text[i - 1] \in SentenceEnd
                       ELSE cur # <<>> /\ cur[Len(cur)] \in SentenceEnd }
    IN  IF cuts = {} THEN <<cur \o text>>
        ELSE LET p == CHOOSE i \in cuts : \A k \in cuts : i <= k
             IN  <<cur \o SubSeq(text, 1, p - 1)>>
                 \o SentenceSplitFrom(DropLeadingSpace(SubSeq(text, p, Len(text))), <<>>)

SentenceSplit(text) == SentenceSplitFrom(text, <<>>)

\* /^[-=*_]{3,}$/
SeparatorChars == {"-", "=", "*", "_"}

IsSeparatorLine(text) ==
    /\ Len(text) >= 3
    /\ \A i \in 1..Len(text) : text[i] \in SeparatorChars

\* if (trimmed.length > 200)
LONG_LINE == 200

\* The non-empty trimmed members of a sequence of texts, in order.
RECURSIVE TrimmedNonEmpty(_)
TrimmedNonEmpty(texts) ==
    IF texts = <<>> THEN <<>>
    ELSE LET st == Trim(Head(texts))
         IN  (IF st # <<>> THEN <<st>> ELSE <<>>) \o TrimmedNonEmpty(Tail(texts))

\* LinesOfRaw with "trimmed.length >= 200".
LinesOfRawInclusive(raw) ==
    LET trimmed == Trim(raw)
    IN  IF trimmed = <<>> THEN <<>>
        ELSE IF IsSeparatorLine(trimmed) THEN <<>>
        ELSE IF Len(trimmed) >= LONG_LINE
             THEN TrimmedNonEmpty(SentenceSplit(trimmed))
             ELSE <<trimmed>>

\* The body of the loop over rawLines: the lines one raw line contributes.
LinesOfRaw(raw) ==
    LET trimmed == Trim(raw)
    IN  IF trimmed = <<>> THEN <<>>
        ELSE IF IsSeparatorLine(trimmed) THEN <<>>
        ELSE IF Len(trimmed) > LONG_LINE
             THEN TrimmedNonEmpty(SentenceSplit(trimmed))
             ELSE <<trimmed>>

RECURSIVE CollectLines(_)
CollectLines(rawLines) ==
    IF rawLines = <<>> THEN <<>>
    ELSE LinesOfRaw(Head(rawLines)) \o CollectLines(Tail(rawLines))

splitScriptIntoLines(scriptText) == CollectLines(Split(scriptText, "\n"))

\* ------------------------------------------------------- small arithmetic

Max(a, b) == IF a >= b THEN a ELSE b
Min(a, b) == IF a <= b THEN a ELSE b
Abs(a) == IF a >= 0 THEN a ELSE -a

RECURSIVE GCD(_, _)
GCD(a, b) == IF b = 0 THEN a ELSE GCD(b, a % b)

LCM(a, b) == (a \div GCD(a, b)) * b

RECURSIVE LCMOfSet(_)
LCMOfSet(S) ==
    IF S = {} THEN 1
    ELSE LET x == CHOOSE y \in S : TRUE
         IN  LCM(x, LCMOfSet(S \ {x}))

Range(seq) == {seq[i] : i \in 1..Len(seq)}

RECURSIVE SumSeq(_)
SumSeq(seq) == IF seq = <<>> THEN 0 ELSE Head(seq) + SumSeq(Tail(seq))

\* 0-based position of the first occurrence of w in the token sequence a.
FirstPos(a, w) == (CHOOSE i \in 1..Len(a) : a[i] = w /\ \A k \in 1..(i - 1) : a[k] # w) - 1

\* The tokens both sequences hold, in the order of their first occurrence
\* in a (the iteration order of the Map posA).
RECURSIVE SharedFrom(_, _, _)
SharedFrom(a, b, seen) ==
    IF a = <<>> THEN <<>>
    ELSE IF Head(a) \notin seen /\ Head(a) \in Range(b)
         THEN <<Head(a)>> \o SharedFrom(Tail(a), b, seen \cup {Head(a)})
         ELSE SharedFrom(Tail(a), b, seen \cup {Head(a)})

SharedWords(a, b) == SharedFrom(a, b, {})

\* The denominators of the three signals of combinedScore(a, b), each
\* multiplied by the denominator of its weight (0.35 = 7/20, 0.45 = 9/20,
\* 0.20 = 1/5).
ScoreDenominators(a, b) ==
    IF a = <<>> \/ b = <<>> THEN {20}
    ELSE { 20 * (Cardinality(Range(a) \cup Range(b))),
           20 * Max(Len(a), Len(b)),
           5 * Max(Len(SharedWords(a, b)), 1) * Max(Len(a) - 1, 1) * Max(Len(b) - 1, 1) }


\* ------------------------------------------------------------ the inputs

\* The largest number of raw lines of a script, and of transcript segments.
MaxLines == 2
MaxSegs == 3

\* const MAX_SPAN = 3
MAX_SPAN == 3

\* The raw lines a script is made of: "B c, a e d.", "a b c", "?!" (a line
\* without any token), "---" (a separator line) and the empty line.
ScriptPieces ==
    { <<"B", " ", "c", ",", " ", "a", " ", "e", " ", "d", ".">>,
      <<"a", " ", "b", " ", "c">>,
      <<"?", "!">>,
      <<"-", "-", "-">>,
      <<>> }

RECURSIVE JoinNewline(_)
JoinNewline(texts) ==
    IF Len(texts) = 1 THEN texts[1]
    ELSE texts[1] \o <<"\n">> \o JoinNewline(Tail(texts))

Scripts ==
    { JoinNewline(ps) : ps \in UNION { [1..n -> ScriptPieces] : n \in 1..MaxLines } }

\* The segments a transcript is made of: a text and its word list, the
\* times of the words relative to the start of the segment (no word list:
\* the empty sequence, which the code treats like a missing one).
SegmentPool ==
    { [text |-> <<"A", " ", "b", " ", "c", ",">>,
       words |-> << [text |-> <<"A">>, start |-> 1, end |-> 3],
                    [text |-> <<"b">>, start |-> 4, end |-> 6],
                    [text |-> <<"c", ",">>, start |-> 7, end |-> 9] >>],
      [text |-> <<"d">>, words |-> <<>>] }

\* The segment at 0-based index idx of a transcript: ten time units long,
\* one after the other (segments arrive ordered by start time).
SegmentAt(tpl, idx) ==
    [text  |-> tpl.text,
     start |-> 10 * idx,
     end   |-> 10 * idx + 10,
     words |-> [k \in 1..Len(tpl.words) |->
                  [text  |-> tpl.words[k].text,
                   start |-> 10 * idx + tpl.words[k].start,
                   end   |-> 10 * idx + tpl.words[k].end]]]

SegmentLists ==
    { [i \in DOMAIN tpls |-> SegmentAt(tpls[i], i - 1)] :
        tpls \in UNION { [1..n -> SegmentPool] : n \in 0..MaxSegs } }

\* A transcript argument: null, an object without .segments, an object
\* whose .segments is not an array, or an object with an array of segments.
Transcripts ==
    { [isNull |-> TRUE, segmentsKind |-> "undefined", segments |-> <<>>],
      [isNull |-> FALSE, segmentsKind |-> "undefined", segments |-> <<>>],
      [isNull |-> FALSE, segmentsKind |-> "notArray", segments |-> <<>>] }
    \cup
    { [isNull |-> FALSE, segmentsKind |-> "array", segments |-> segs] :
        segs \in SegmentLists }

\* The raw lines of the scripts aligned against transcripts without word
\* lists: "a!", "a b a" and a line of eight distinct words,
\* "a c d e _ aa bb b".
PlainPieces ==
    { <<"a", "!">>,
      <<"a", " ", "b", " ", "a">>,
      <<"a", " ", "c", " ", "d", " ", "e", " ", "_", " ",
        "a", "a", " ", "b", "b", " ", "b">> }

PlainScripts ==
    { JoinNewline(ps) : ps \in UNION { [1..n -> PlainPieces] : n \in 1..MaxLines } }

\* Segments without word-level timestamps: "A.", "b" and "b a".
PlainSegmentPool ==
    { [text |-> <<"A", ".">>, words |-> <<>>],
      [text |-> <<"b">>, words |-> <<>>],
      [text |-> <<"b", " ", "a">>, words |-> <<>>] }

PlainTranscripts ==
    { [isNull |-> FALSE, segmentsKind |-> "array",
       segments |-> [i \in DOMAIN tpls |-> SegmentAt(tpls[i], i - 1)]] :
        tpls \in UNION { [1..n -> PlainSegmentPool] : n \in 0..MaxSegs } }

\* The texts normalize and tokenize are applied to on their own: up to
\* MaxChars characters out of a letter, a capital, a comma, a space and
\* an apostrophe.
MaxChars == 4

TextChars == {"a", "B", ",", " ", "'"}

Texts == UNION { [1..n -> TextChars] : n \in 0..MaxChars }

\* The token sequences the scoring functions are applied to on their own:
\* up to MaxTokens words out of "a", "b", "c".
MaxTokens == 3

Words == { <<"a">>, <<"b">>, <<"c">> }

TokenSeqs == UNION { [1..n -> Words] : n \in 0..MaxTokens }

\* The scripts splitScriptIntoLines is applied to on its own: up to
\* MaxRawLines raw lines out of short lines ("a b", " a. b " between
\* spaces, the empty line, a line of spaces, "---", "-=*_", "--") and of
\* lines around the length of 200: a word of 199 letters followed by
\* ". b!  c" or by ". ---", a line of exactly 200 characters with a
\* sentence end in it, and 201 dashes.
MaxRawLines == 2

Filler(n) == [i \in 1..n |-> "a"]

RawPieces ==
    { <<"a", " ", "b">>,
      <<" ", "a", ".", " ", "b", " ">>,
      <<>>,
      <<" ", "\t">>,
      <<"-", "-", "-">>,
      <<"-", "=", "*", "_">>,
      <<"-", "-">>,
      Filler(LONG_LINE - 1) \o <<".", " ", "b", "!", " ", " ", "c">>,
      Filler(LONG_LINE - 1) \o <<".", " ", "-", "-", "-">>,
      Filler(LONG_LINE - 3) \o <<".", " ", "b">>,
      [i \in 1..(LONG_LINE + 1) |-> "-"] }

RawScripts ==
    { JoinNewline(ps) : ps \in UNION { [1..n -> RawPieces] : n \in 1..MaxRawLines } }

\* ------------------------------------------------------------ the scale

PoolLineTokens ==
    { tokenize(l) : l \in UNION { Range(LinesOfRaw(p)) : p \in ScriptPieces \cup PlainPieces } }

PoolWindowTokens ==
    { tokenize(JoinSpace([i \in DOMAIN w |-> w[i].text])) :
        w \in UNION { [1..n -> SegmentPool] \cup [1..n -> PlainSegmentPool] :
                        n \in 1..MAX_SPAN } }

\* The denominators of the three signals on two sequences of TokenSeqs:
\* up to Cardinality(Words) distinct or shared words, up to MaxTokens
\* tokens on either side.
TokenSeqDenominators ==
    {20}
    \cup { 20 * u : u \in 1..Cardinality(Words) }
    \cup { 20 * m : m \in 1..MaxTokens }
    \cup { 5 * n * da * db : n \in 1..Cardinality(Words),
                             da \in 1..Max(MaxTokens - 1, 1),
                             db \in 1..Max(MaxTokens - 1, 1) }

\* Scores are numerators over SCALE.
SCALE ==
    LCMOfSet(TokenSeqDenominators
             \cup UNION { ScoreDenominators(a, b) :
                            a \in PoolLineTokens, b \in PoolWindowTokens })

\* ---------------------------------------------------- similarity scoring

\* jaccard with union = setA.size + setB.size, the intersection not taken
\* off.
jaccardSumOfSizes(a, b) ==
    IF Len(a) = 0 /\ Len(b) = 0 THEN 0
    ELSE LET setA == Range(a)
             setB == Range(b)
             intersection == Cardinality(setA \cap setB)
             union == Cardinality(setA) + Cardinality(setB)
         IN  IF union = 0 THEN 0 ELSE (intersection * SCALE) \div union

jaccard(a, b) ==
    IF Len(a) = 0 /\ Len(b) = 0 THEN 0
    ELSE LET setA == Range(a)
             setB == Range(b)
             intersection == Cardinality(setA \cap setB)
             union == Cardinality(setA) + Cardinality(setB) - intersection
         IN  IF union = 0 THEN 0 ELSE (intersection * SCALE) \div union

\* new Uint16Array(n + 1)
UINT16 == 65536

\* lcsRow with the comparison of the two words inverted.
RECURSIVE lcsRowInverted(_, _, _, _, _)
lcsRowInverted(a, b, i, prev, curr) ==
    IF Len(curr) = Len(b) + 1 THEN curr
    ELSE LET j == Len(curr)
             v == IF a[i] # b[j]
                  THEN prev[j] + 1
                  ELSE Max(prev[j + 1], curr[j])
         IN  lcsRowInverted(a, b, i, prev, Append(curr, v % UINT16))

\* The inner loop over j for one i: curr, built from index 0 upwards; the
\* sequences hold index k at position k + 1.
RECURSIVE lcsRow(_, _, _, _, _)
lcsRow(a, b, i, prev, curr) ==
    IF Len(curr) = Len(b) + 1 THEN curr
    ELSE LET j == Len(curr)
             v == IF a[i] = b[j]
                  THEN prev[j] + 1
                  ELSE Max(prev[j + 1], curr[j])
         IN  lcsRow(a, b, i, prev, Append(curr, v % UINT16))

\* lcsRows without the swap: every row is computed from a row of zeros.
RECURSIVE lcsRowsNoSwap(_, _, _, _)
lcsRowsNoSwap(a, b, i, prev) ==
    IF i > Len(a) THEN prev[Len(b) + 1]
    ELSE lcsRowsNoSwap(a, b, i + 1,
                       lcsRow(a, b, i, [k \in 1..(Len(b) + 1) |-> 0], <<0>>))

\* The outer loop over i; after the swap prev is the row just filled.
RECURSIVE lcsRows(_, _, _, _)
lcsRows(a, b, i, prev) ==
    IF i > Len(a) THEN prev[Len(b) + 1]
    ELSE lcsRows(a, b, i + 1, lcsRow(a, b, i, prev, <<0>>))

lcsLength(a, b) ==
    IF Len(a) = 0 \/ Len(b) = 0 THEN 0
    ELSE lcsRows(a, b, 1, [k \in 1..(Len(b) + 1) |-> 0])

lcsRatio(a, b) ==
    LET maxLen == Max(Len(a), Len(b))
    IN  IF maxLen = 0 THEN 0 ELSE (lcsLength(a, b) * SCALE) \div maxLen

\* wordOrderScore on the last occurrence of each shared word.
wordOrderScoreLastPos(a, b) ==
    LET shared == SharedWords(a, b)
        n == Len(shared)
        da == Max(Len(a) - 1, 1)
        db == Max(Len(b) - 1, 1)
        lastPos(x, w) ==
            (CHOOSE i \in 1..Len(x) : x[i] = w /\ \A k \in (i + 1)..Len(x) : x[k] # w) - 1
        diffs == [k \in 1..n |->
                    Abs(lastPos(a, shared[k]) * db - lastPos(b, shared[k]) * da)]
    IN  IF n < 2 THEN (IF n > 0 THEN SCALE \div 2 ELSE 0)
        ELSE Max(0, SCALE - (SCALE \div (n * da * db)) * SumSeq(diffs))

\* wordOrderScore that gives 0, not 0.5, to a single shared word.
wordOrderScoreNoHalf(a, b) ==
    LET shared == SharedWords(a, b)
        n == Len(shared)
        da == Max(Len(a) - 1, 1)
        db == Max(Len(b) - 1, 1)
        diffs == [k \in 1..n |->
                    Abs(FirstPos(a, shared[k]) * db - FirstPos(b, shared[k]) * da)]
    IN  IF n < 2 THEN 0
        ELSE Max(0, SCALE - (SCALE \div (n * da * db)) * SumSeq(diffs))

wordOrderScore(a, b) ==
    LET shared == SharedWords(a, b)
        n == Len(shared)
        da == Max(Len(a) - 1, 1)
        db == Max(Len(b) - 1, 1)
        \* |pa - pb| = |posA * db - posB * da| / (da * db)
        diffs == [k \in 1..n |->
                    Abs(FirstPos(a, shared[k]) * db - FirstPos(b, shared[k]) * da)]
    IN  IF n < 2 THEN (IF n > 0 THEN SCALE \div 2 ELSE 0)
        ELSE Max(0, SCALE - (SCALE \div (n * da * db)) * SumSeq(diffs))

\* combinedScore without its first line, and with 0.5 as the word-order
\* score of sequences that share no word.
combinedScoreNeutral(scriptWords, segmentWords) ==
    LET j == jaccard(scriptWords, segmentWords)
        l == lcsRatio(scriptWords, segmentWords)
        o == IF SharedWords(scriptWords, segmentWords) = <<>> THEN SCALE \div 2
             ELSE wordOrderScore(scriptWords, segmentWords)
    IN  (35 * j + 45 * l + 20 * o) \div 100

\* combinedScore with the three signals weighted alike.
combinedScoreEqualWeights(scriptWords, segmentWords) ==
    IF Len(scriptWords) = 0 \/ Len(segmentWords) = 0 THEN 0
    ELSE LET j == jaccard(scriptWords, segmentWords)
             l == lcsRatio(scriptWords, segmentWords)
             o == wordOrderScore(scriptWords, segmentWords)
         IN  (j + l + o) \div 3

\* combinedScore with weights that sum to more than one (0.30 for the
\* word-order score).
combinedScoreHeavy(scriptWords, segmentWords) ==
    IF Len(scriptWords) = 0 \/ Len(segmentWords) = 0 THEN 0
    ELSE LET j == jaccard(scriptWords, segmentWords)
             l == lcsRatio(scriptWords, segmentWords)
             o == wordOrderScore(scriptWords, segmentWords)
         IN  (35 * j + 45 * l + 30 * o) \div 100

combinedScore(scriptWords, segmentWords) ==
    IF Len(scriptWords) = 0 \/ Len(segmentWords) = 0 THEN 0
    ELSE LET j == jaccard(scriptWords, segmentWords)
             l == lcsRatio(scriptWords, segmentWords)
             o == wordOrderScore(scriptWords, segmentWords)
         IN  (35 * j + 45 * l + 20 * o) \div 100


\* ------------------------------------------------ multi-segment matching

\* The words of segments[startIdx .. endIdx), 0-based and half-open: the
\* cached value is the tokenization of the joined texts.
windowWords(segments, startIdx, endIdx) ==
    tokenize(JoinSpace([k \in 1..(endIdx - startIdx) |-> segments[startIdx + k].text]))

scoreMultiSegment(scriptWords, segments, startIdx, endIdx) ==
    combinedScore(scriptWords, windowWords(segments, startIdx, endIdx))

\* ---------------------------------------- dynamic programming alignment

\* if (sc < 0.15) continue
FLOOR == (15 * SCALE) \div 100

\* score[s][t][span], s and t 0-based, span in 1..MAX_SPAN with t + span <= T
scoreTable(scriptTokens, segments) ==
    LET S == Len(scriptTokens)
        T == Len(segments)
    IN  [s \in 0..(S - 1) |->
          [t \in 0..(T - 1) |->
            [span \in 1..Min(MAX_SPAN, T - t) |->
               scoreMultiSegment(scriptTokens[s + 1], segments, t, t + span)]]]

\* The recorded choices: null (never written), skip, or a match (t2, span).
NullChoice == [kind |-> "null", t2 |-> -1, span |-> 0]
SkipChoice == [kind |-> "skip", t2 |-> -1, span |-> 0]
MatchChoice(t2, span) == [kind |-> "match", t2 |-> t2, span |-> span]

\* The (t2, span) pairs the two inner loops visit from t, in loop order.
RECURSIVE candidatesFrom(_, _, _)
candidatesFrom(t2, span, T) ==
    IF t2 >= T THEN <<>>
    ELSE IF span <= MAX_SPAN /\ t2 + span <= T
         THEN <<MatchChoice(t2, span)>> \o candidatesFrom(t2, span + 1, T)
         ELSE candidatesFrom(t2 + 1, 1, T)

\* scanCandidates with "total >= best": the last of equal options is kept.
RECURSIVE scanCandidatesLastWins(_, _, _, _, _)
scanCandidatesLastWins(cands, scoreS, dpNext, best, bestChoice) ==
    IF cands = <<>> THEN [best |-> best, choice |-> bestChoice]
    ELSE LET c == Head(cands)
             sc == scoreS[c.t2][c.span]
             future == dpNext[c.t2 + c.span]
             total == sc + future
         IN  IF sc < FLOOR
             THEN scanCandidatesLastWins(Tail(cands), scoreS, dpNext, best, bestChoice)
             ELSE IF total >= best
                  THEN scanCandidatesLastWins(Tail(cands), scoreS, dpNext, total, c)
                  ELSE scanCandidatesLastWins(Tail(cands), scoreS, dpNext, best, bestChoice)

\* scanCandidates without the floor: no "if (sc < 0.15) continue".
RECURSIVE scanCandidatesNoFloor(_, _, _, _, _)
scanCandidatesNoFloor(cands, scoreS, dpNext, best, bestChoice) ==
    IF cands = <<>> THEN [best |-> best, choice |-> bestChoice]
    ELSE LET c == Head(cands)
             sc == scoreS[c.t2][c.span]
             future == dpNext[c.t2 + c.span]
             total == sc + future
         IN  IF total > best
             THEN scanCandidatesNoFloor(Tail(cands), scoreS, dpNext, total, c)
             ELSE scanCandidatesNoFloor(Tail(cands), scoreS, dpNext, best, bestChoice)

\* scanCandidates with total = sc: the value of the lines after s left out.
RECURSIVE scanCandidatesNoFuture(_, _, _, _, _)
scanCandidatesNoFuture(cands, scoreS, dpNext, best, bestChoice) ==
    IF cands = <<>> THEN [best |-> best, choice |-> bestChoice]
    ELSE LET c == Head(cands)
             sc == scoreS[c.t2][c.span]
             total == sc
         IN  IF sc < FLOOR
             THEN scanCandidatesNoFuture(Tail(cands), scoreS, dpNext, best, bestChoice)
             ELSE IF total > best
                  THEN scanCandidatesNoFuture(Tail(cands), scoreS, dpNext, total, c)
                  ELSE scanCandidatesNoFuture(Tail(cands), scoreS, dpNext, best, bestChoice)

\* One pass of the inner loops over the candidates left, with the running
\* best and bestChoice; dpNext is the row dp[s + 1].
RECURSIVE scanCandidates(_, _, _, _, _)
scanCandidates(cands, scoreS, dpNext, best, bestChoice) ==
    IF cands = <<>> THEN [best |-> best, choice |-> bestChoice]
    ELSE LET c == Head(cands)
             sc == scoreS[c.t2][c.span]
             future == dpNext[c.t2 + c.span]
             total == sc + future
         IN  IF sc < FLOOR
             THEN scanCandidates(Tail(cands), scoreS, dpNext, best, bestChoice)
             ELSE IF total > best
                  THEN scanCandidates(Tail(cands), scoreS, dpNext, total, c)
                  ELSE scanCandidates(Tail(cands), scoreS, dpNext, best, bestChoice)

\* The body of the loop over t: dp[s][t] and choice[s][t].
dpCell(scoreS, dpNext, t, T) ==
    scanCandidates(candidatesFrom(t, 1, T), scoreS, dpNext, dpNext[t], SkipChoice)

\* dpFill with the loop over t started at T - 1: column T is never written.
RECURSIVE dpFillShort(_, _, _, _, _)
dpFillShort(s, S, T, score, rows) ==
    IF s < 0 THEN rows
    ELSE LET dpNext == [t \in 0..T |-> rows[s + 1][t].best]
             row == [t \in 0..T |->
                        IF t = T THEN [best |-> 0, choice |-> NullChoice]
                        ELSE dpCell(score[s], dpNext, t, T)]
         IN  dpFillShort(s - 1, S, T, score, (s :> row) @@ rows)

\* The loop over s, downwards: rows s .. S - 1 of dp and choice, given the
\* rows above s ("rows" maps a script index to its row, a row maps t in
\* 0..T to [best, choice]).
RECURSIVE dpFill(_, _, _, _, _)
dpFill(s, S, T, score, rows) ==
    IF s < 0 THEN rows
    ELSE LET dpNext == [t \in 0..T |-> rows[s + 1][t].best]
             row == [t \in 0..T |-> dpCell(score[s], dpNext, t, T)]
         IN  dpFill(s - 1, S, T, score, (s :> row) @@ rows)

\* dp and choice after the fill; row S is the zero row of the fresh arrays.
dpTable(S, T, score) ==
    dpFill(S - 1, S, T, score,
           (S :> [t \in 0..T |-> [best |-> 0, choice |-> NullChoice]]))

\* The score tables the fill and the traceback are applied to on their
\* own: one or two lines, up to MaxFillSegs segments, every score either
\* just below the floor or on it.
MaxFillSegs == 2

FillScores == {FLOOR - 1, FLOOR}

FillRows(T) ==
    { row \in [0..(T - 1) -> UNION { [1..k -> FillScores] : k \in 1..MAX_SPAN }] :
        \A t \in 0..(T - 1) : Len(row[t]) = Min(MAX_SPAN, T - t) }

FillArgs ==
    UNION { { <<S, T, score>> : score \in [0..(S - 1) -> FillRows(T)] } :
              S \in 1..2, T \in 1..MaxFillSegs }

\* Reading .skip of a null choice throws: the traceback ends there.
TraceError == [scriptIdx |-> -1, segStart |-> -1, segEnd |-> -1, score |-> 0]

\* traceBack with t = t2 after a match: the window is not stepped over.
RECURSIVE traceBackNoSpan(_, _, _, _, _)
traceBackNoSpan(s, t, S, table, score) ==
    IF s >= S THEN <<>>
    ELSE LET c == table[s][t].choice
         IN  IF c.kind = "null"
             THEN <<TraceError>>
             ELSE IF c.kind = "skip"
             THEN <<[scriptIdx |-> s, segStart |-> -1, segEnd |-> -1, score |-> 0]>>
                  \o traceBackNoSpan(s + 1, t, S, table, score)
             ELSE <<[scriptIdx |-> s, segStart |-> c.t2, segEnd |-> c.t2 + c.span,
                     score |-> score[s][c.t2][c.span]]>>
                  \o traceBackNoSpan(s + 1, c.t2, S, table, score)

\* traceBack that pushes no assignment for a skipped line.
RECURSIVE traceBackDropSkipped(_, _, _, _, _)
traceBackDropSkipped(s, t, S, table, score) ==
    IF s >= S THEN <<>>
    ELSE LET c == table[s][t].choice
         IN  IF c.kind = "null"
             THEN <<TraceError>>
             ELSE IF c.kind = "skip"
             THEN traceBackDropSkipped(s + 1, t, S, table, score)
             ELSE <<[scriptIdx |-> s, segStart |-> c.t2, segEnd |-> c.t2 + c.span,
                     score |-> score[s][c.t2][c.span]]>>
                  \o traceBackDropSkipped(s + 1, c.t2 + c.span, S, table, score)

\* The traceback loop from state (s, t).
RECURSIVE traceBack(_, _, _, _, _)
traceBack(s, t, S, table, score) ==
    IF s >= S THEN <<>>
    ELSE LET c == table[s][t].choice
         IN  IF c.kind = "null"
             THEN <<TraceError>>      \* c.skip on null: a TypeError
             ELSE IF c.kind = "skip"
             THEN <<[scriptIdx |-> s, segStart |-> -1, segEnd |-> -1, score |-> 0]>>
                  \o traceBack(s + 1, t, S, table, score)
             ELSE <<[scriptIdx |-> s, segStart |-> c.t2, segEnd |-> c.t2 + c.span,
                     score |-> score[s][c.t2][c.span]]>>
                  \o traceBack(s + 1, c.t2 + c.span, S, table, score)

\* dpAlign from the score table on: the fill, then the traceback.
alignByScore(S, T, score) == traceBack(0, 0, S, dpTable(S, T, score), score)

\* The assignments dpAlign returns.
dpAlign(scriptTokens, segments) ==
    alignByScore(Len(scriptTokens), Len(segments), scoreTable(scriptTokens, segments))

\* --------------------------------------------------- word-level trimming

\* A trimmed time is null or a number: the empty sequence or <<time>>.
Null == <<>>
Num(t) == <<t>>

\* String.prototype.includes
Includes(hay, needle) ==
    \E off \in 0..(Len(hay) - Len(needle)) :
        SubSeq(hay, off + 1, off + Len(needle)) = needle

\* allWords: the words of the segments, or one pseudo-word for a segment
\* without a (non-empty) word list.
RECURSIVE collectWords(_)
collectWords(segments) ==
    IF segments = <<>> THEN <<>>
    ELSE LET seg == Head(segments)
         IN  (IF Len(seg.words) > 0
              THEN [k \in 1..Len(seg.words) |->
                      [text  |-> normalize(seg.words[k].text),
                       start |-> seg.words[k].start,
                       end   |-> seg.words[k].end]]
              ELSE <<[text |-> normalize(seg.text), start |-> seg.start, end |-> seg.end]>>)
             \o collectWords(Tail(segments))

\* WordMatches with the test in one direction only.
WordMatchesOneWay(w, scriptWord) == Includes(w.text, scriptWord)

WordMatches(w, scriptWord) == Includes(w.text, scriptWord) \/ Includes(scriptWord, w.text)

\* for (const w of allWords) { if (...) { trimmedStart = w.start; break } }
\* from the i-th word on, trimmedStart holding its initial value.
RECURSIVE firstMatchStart(_, _, _, _)
firstMatchStart(allWords, i, firstScriptWord, trimmedStart) ==
    IF i > Len(allWords) THEN trimmedStart
    ELSE IF WordMatches(allWords[i], firstScriptWord) THEN allWords[i].start
    ELSE firstMatchStart(allWords, i + 1, firstScriptWord, trimmedStart)

\* for (let i = allWords.length - 1; i >= 0; i--) { ... break }
RECURSIVE lastMatchEnd(_, _, _, _)
lastMatchEnd(allWords, i, lastScriptWord, trimmedEnd) ==
    IF i < 1 THEN trimmedEnd
    ELSE IF WordMatches(allWords[i], lastScriptWord) THEN allWords[i].end
    ELSE lastMatchEnd(allWords, i - 1, lastScriptWord, trimmedEnd)

\* The two searches; scriptWords and allWords are non-empty.
wordSearch(scriptWords, allWords) ==
    [trimmedStart |-> firstMatchStart(allWords, 1, scriptWords[1], allWords[1].start),
     trimmedEnd   |-> lastMatchEnd(allWords, Len(allWords), scriptWords[Len(scriptWords)],
                                   allWords[Len(allWords)].end)]

\* segments[0].start and segments[segments.length - 1].end
wholeRange(segments) ==
    [trimmedStart |-> segments[1].start, trimmedEnd |-> segments[Len(segments)].end]

\* trimToWords without the check that start < end.
trimToWordsUnchecked(scriptLine, segments) ==
    IF Len(tokenize(scriptLine)) = 0 THEN wholeRange(segments)
    ELSE IF Len(collectWords(segments)) = 0 THEN wholeRange(segments)
    ELSE wordSearch(tokenize(scriptLine), collectWords(segments))

\* The safety check on what the searches found.
ensureStartBeforeEnd(found, segments) ==
    IF found.trimmedStart >= found.trimmedEnd THEN wholeRange(segments) ELSE found

\* segments is never empty here: a matched window has 1..MAX_SPAN segments.
trimToWords(scriptLine, segments) ==
    IF Len(tokenize(scriptLine)) = 0 THEN wholeRange(segments)
    ELSE IF Len(collectWords(segments)) = 0 THEN wholeRange(segments)
    ELSE ensureStartBeforeEnd(wordSearch(tokenize(scriptLine), collectWords(segments)),
                              segments)

\* The lines and the segments trimToWords is applied to on its own: the
\* lines "a b", "ab", "a", "c" and "?!"; up to MaxTrimSegs segments out of
\* "A b," and "b a" with the times of their words, "c a c" whose word "a"
\* has no duration, and "b a" and "d" without word lists.
MaxTrimSegs == 2

TrimLines ==
    { <<"a", " ", "b">>, <<"a", "b">>, <<"a">>, <<"c">>, <<"?", "!">> }

TrimSegmentPool ==
    { [text |-> <<"A", " ", "b", ",">>,
       words |-> << [text |-> <<"A">>, start |-> 1, end |-> 3],
                    [text |-> <<"b", ",">>, start |-> 4, end |-> 6] >>],
      [text |-> <<"b", " ", "a">>,
       words |-> << [text |-> <<"b">>, start |-> 1, end |-> 3],
                    [text |-> <<"a">>, start |-> 4, end |-> 6] >>],
      [text |-> <<"c", " ", "a", " ", "c">>,
       words |-> << [text |-> <<"c">>, start |-> 1, end |-> 2],
                    [text |-> <<"a">>, start |-> 4, end |-> 4],
                    [text |-> <<"c">>, start |-> 6, end |-> 8] >>],
      [text |-> <<"b", " ", "a">>, words |-> <<>>],
      [text |-> <<"d">>, words |-> <<>>] }

TrimArgs ==
    { <<l, [i \in DOMAIN tpls |-> SegmentAt(tpls[i], i - 1)]>> :
        l \in TrimLines,
        tpls \in UNION { [1..n -> TrimSegmentPool] : n \in 1..MaxTrimSegs } }

\* ------------------------------------------------------------ public API

\* Math.round(x * 1000) / 1000 of the score num / SCALE, in thousandths.
roundScore(num) == (1000 * num + SCALE \div 2) \div SCALE

\* statusOf on the rounded score.
statusOfRounded(score) ==
    IF roundScore(score) >= 700 THEN "matched"
    ELSE IF roundScore(score) >= 300 THEN "approximate"
    ELSE "unmatched"

\* if (a.score >= 0.7) ... else if (a.score >= 0.3) ... else ...
statusOf(score) ==
    IF score >= (7 * SCALE) \div 10 THEN "matched"
    ELSE IF score >= (3 * SCALE) \div 10 THEN "approximate"
    ELSE "unmatched"

\* entryOf with the loop over the indices running to segEnd inclusive.
entryOfInclusiveEnd(a, scriptLines, segments) ==
    LET scriptLine == scriptLines[a.scriptIdx + 1]
    IN  IF a.segStart < 0
        THEN [scriptIndex |-> a.scriptIdx,
              scriptLine |-> scriptLine,
              matchedSegments |-> <<>>,
              matchedText |-> <<>>,
              trimmedStart |-> Null,
              trimmedEnd |-> Null,
              confidence |-> 0,
              status |-> "unmatched"]
        ELSE LET matchedSegs == SubSeq(segments, a.segStart + 1, a.segEnd)
                 segIndices == [k \in 1..(a.segEnd - a.segStart + 1) |-> a.segStart + k - 1]
                 trimmed == trimToWords(scriptLine, matchedSegs)
             IN  [scriptIndex |-> a.scriptIdx,
                  scriptLine |-> scriptLine,
                  matchedSegments |-> segIndices,
                  matchedText |-> JoinSpace([k \in 1..Len(matchedSegs) |-> matchedSegs[k].text]),
                  trimmedStart |-> Num(trimmed.trimmedStart),
                  trimmedEnd |-> Num(trimmed.trimmedEnd),
                  confidence |-> roundScore(a.score),
                  status |-> statusOf(a.score)]

\* entryOf that reports a match scoring below 0.3 like a skipped line.
entryOfDropLow(a, scriptLines, segments) ==
    LET scriptLine == scriptLines[a.scriptIdx + 1]
    IN  IF a.segStart < 0 \/ statusOf(a.score) = "unmatched"
        THEN [scriptIndex |-> a.scriptIdx,
              scriptLine |-> scriptLine,
              matchedSegments |-> <<>>,
              matchedText |-> <<>>,
              trimmedStart |-> Null,
              trimmedEnd |-> Null,
              confidence |-> 0,
              status |-> "unmatched"]
        ELSE LET matchedSegs == SubSeq(segments, a.segStart + 1, a.segEnd)
                 segIndices == [k \in 1..(a.segEnd - a.segStart) |-> a.segStart + k - 1]
                 trimmed == trimToWords(scriptLine, matchedSegs)
             IN  [scriptIndex |-> a.scriptIdx,
                  scriptLine |-> scriptLine,
                  matchedSegments |-> segIndices,
                  matchedText |-> JoinSpace([k \in 1..Len(matchedSegs) |-> matchedSegs[k].text]),
                  trimmedStart |-> Num(trimmed.trimmedStart),
                  trimmedEnd |-> Num(trimmed.trimmedEnd),
                  confidence |-> roundScore(a.score),
                  status |-> statusOf(a.score)]

\* The callback of assignments.map: the entry of one assignment.
entryOf(a, scriptLines, segments) ==
    LET scriptLine == scriptLines[a.scriptIdx + 1]
    IN  IF a.segStart < 0
        THEN [scriptIndex |-> a.scriptIdx,
              scriptLine |-> scriptLine,
              matchedSegments |-> <<>>,
              matchedText |-> <<>>,
              trimmedStart |-> Null,
              trimmedEnd |-> Null,
              confidence |-> 0,
              status |-> "unmatched"]
        ELSE LET matchedSegs == SubSeq(segments, a.segStart + 1, a.segEnd)
                 segIndices == [k \in 1..(a.segEnd - a.segStart) |-> a.segStart + k - 1]
                 trimmed == trimToWords(scriptLine, matchedSegs)
             IN  [scriptIndex |-> a.scriptIdx,
                  scriptLine |-> scriptLine,
                  matchedSegments |-> segIndices,
                  matchedText |-> JoinSpace([k \in 1..Len(matchedSegs) |-> matchedSegs[k].text]),
                  trimmedStart |-> Num(trimmed.trimmedStart),
                  trimmedEnd |-> Num(trimmed.trimmedEnd),
                  confidence |-> roundScore(a.score),
                  status |-> statusOf(a.score)]

\* usedSegments with only the first index of each entry added.
usedSegmentsOfFirst(entries) ==
    UNION { IF entries[i].matchedSegments = <<>> THEN {}
            ELSE {entries[i].matchedSegments[1]} : i \in 1..Len(entries) }

\* usedSegments after the map: every index an entry lists.
usedSegmentsOf(entries) == UNION { Range(entries[i].matchedSegments) : i \in 1..Len(entries) }

\* The loop that collects the unused segment indices, from index i on.
RECURSIVE unusedFrom(_, _, _)
unusedFrom(i, T, used) ==
    IF i >= T THEN <<>>
    ELSE (IF i \notin used THEN <<i>> ELSE <<>>) \o unusedFrom(i + 1, T, used)

\* countStatus that takes an entry for "unmatched" only when it lists no
\* segment.
countStatusUnclaimed(entries, st) ==
    LET Is(e) == e.status = st /\ (st = "unmatched" => e.matchedSegments = <<>>)
    IN  Len(SelectSeq(entries, Is))

\* entries.filter(e => e.status === st).length
countStatus(entries, st) ==
    LET Is(e) == e.status = st IN Len(SelectSeq(entries, Is))

\* avgConfidenceOf that divides by the number of all the entries.
avgConfidenceOfAll(entries) ==
    LET n == Len(entries)
        sum == SumSeq([k \in 1..n |-> entries[k].confidence])
    IN  IF n > 0
        THEN IF (2 * sum) % (2 * n) = n
             THEN {sum \div n, sum \div n + 1}
             ELSE {(2 * sum + n) \div (2 * n)}
        ELSE {0}

\* Math.round((sum / n) * 1000) / 1000 of the confidences, in thousandths:
\* the values it can take.  The quotient and the product are binary
\* floating-point numbers; when the exact mean lies halfway between two
\* thousandths the product falls on either side of the half and Math.round
\* gives either neighbour.
avgConfidenceOf(entries) ==
    LET Positive(e) == e.confidence > 0
        kept == SelectSeq(entries, Positive)
        n == Len(kept)
        sum == SumSeq([k \in 1..n |-> kept[k].confidence])
    IN  IF n > 0
        THEN IF (2 * sum) % (2 * n) = n
             THEN {sum \div n, sum \div n + 1}
             ELSE {(2 * sum + n) \div (2 * n)}
        ELSE {0}

\* missingInput without the test of an empty segment list.
missingInputNoLength(text, tr) ==
    \/ text = <<>>
    \/ tr.isNull
    \/ tr.segmentsKind # "array"

\* The first guard of alignScriptToTranscript.
missingInput(text, tr) ==
    \/ text = <<>>                          \* !scriptText
    \/ tr.isNull                            \* !transcript
    \/ tr.segmentsKind # "array"            \* !Array.isArray(transcript.segments)
    \/ Len(tr.segments) = 0                 \* transcript.segments.length === 0

ErrMissing == "Both scriptText and a transcript with segments are required."
ErrNoLines == "Script text produced no usable lines after splitting."
ErrType == "TypeError"

\* The result variable of a call that has not returned.
NoResult ==
    [entries |-> <<>>, unusedSegments |-> <<>>,
     stats |-> [totalLines |-> 0, matched |-> 0, approximate |-> 0,
                unmatched |-> 0, avgConfidence |-> 0]]

\* The result object, from the entries on; avg is the avgConfidence computed.
resultOf(entries, segments, avg) ==
    [error |-> "",
     result |->
       [entries |-> entries,
        unusedSegments |-> unusedFrom(0, Len(segments), usedSegmentsOf(entries)),
        stats |-> [totalLines |-> Len(entries),
                   matched |-> countStatus(entries, "matched"),
                   approximate |-> countStatus(entries, "approximate"),
                   unmatched |-> countStatus(entries, "unmatched"),
                   avgConfidence |-> avg]]]

\* The results the entries can give: one for each value of the average.
resultsOf(entries, segments) ==
    { resultOf(entries, segments, avg) : avg \in avgConfidenceOf(entries) }

\* The call from the assignments on.
entriesOf(assignments, scriptLines, segments) ==
    IF \E i \in 1..Len(assignments) : assignments[i] = TraceError
    THEN {[error |-> ErrType, result |-> NoResult]}
    ELSE resultsOf([i \in 1..Len(assignments) |->
                      entryOf(assignments[i], scriptLines, segments)],
                   segments)

\* The call from the split lines on.
alignLines(scriptLines, segments) ==
    IF Len(scriptLines) = 0 THEN {[error |-> ErrNoLines, result |-> NoResult]}
    ELSE entriesOf(dpAlign([i \in 1..Len(scriptLines) |-> tokenize(scriptLines[i])],
                           segments),
                   scriptLines, segments)

\* The outcomes of one call: it throws (error # "") or returns a result.
alignScriptToTranscript(text, tr) ==
    IF missingInput(text, tr) THEN {[error |-> ErrMissing, result |-> NoResult]}
    ELSE alignLines(splitScriptIntoLines(text), tr.segments)

\* ------------------------------------------------- the segment word cache

\* new Map()
EmptyMap == <<>>

\* cacheAtEntry that keeps the map an earlier call of dpAlign left.
cacheAtEntryKept(left) == left

\* The segWordCache a call of dpAlign starts with, "left" being the map
\* the call before it built: const segWordCache = new Map().
cacheAtEntry(left) == EmptyMap

\* The keys are the pairs <<startIdx, endIdx>>.  The loop that pre-tokenizes
\* the segments sets the key of every single segment.
preTokenize(cache, segments) ==
    LET singles == { <<i, i + 1>> : i \in 0..(Len(segments) - 1) }
    IN  [k \in DOMAIN cache \cup singles |->
            IF k \in singles THEN tokenize(segments[k[1] + 1].text) ELSE cache[k]]

\* scoreMultiSegment's words: the cached value when the key is set.
segWords(cache, segments, startIdx, endIdx) ==
    IF <<startIdx, endIdx>> \in DOMAIN cache
    THEN cache[<<startIdx, endIdx>>]
    ELSE windowWords(segments, startIdx, endIdx)

\* score, computed through the cache.
scoreTableWith(cache, scriptTokens, segments) ==
    [s \in 0..(Len(scriptTokens) - 1) |->
       [t \in 0..(Len(segments) - 1) |->
          [span \in 1..Min(MAX_SPAN, Len(segments) - t) |->
             combinedScore(scriptTokens[s + 1], segWords(cache, segments, t, t + span))]]]

\* The cache once the scores are computed: every window has its key.
cacheAfter(cache, segments) ==
    LET keys == { w \in (0..(Len(segments) - 1)) \X (1..(Len(segments))) :
                    w[2] - w[1] \in 1..MAX_SPAN }
    IN  [k \in DOMAIN cache \cup keys |->
            IF k \in DOMAIN cache THEN cache[k] ELSE windowWords(segments, k[1], k[2])]

\* dpAlign, from the cache its call starts with.
dpAlignWith(cache, scriptTokens, segments) ==
    alignByScore(Len(scriptTokens), Len(segments),
                 scoreTableWith(preTokenize(cache, segments), scriptTokens, segments))

\* An outcome together with the cache the call leaves.
withCache(outs, cache) ==
    { [error |-> o.error, result |-> o.result, cache |-> cache] : o \in outs }

\* The call from the split lines on, in a process where the call before
\* left the cache "left".
alignLinesAfter(left, scriptLines, segments) ==
    IF Len(scriptLines) = 0 THEN withCache({[error |-> ErrNoLines, result |-> NoResult]}, left)
    ELSE withCache(
           entriesOf(dpAlignWith(cacheAtEntry(left),
                                 [i \in 1..Len(scriptLines) |-> tokenize(scriptLines[i])],
                                 segments),
                     scriptLines, segments),
           cacheAfter(preTokenize(cacheAtEntry(left), segments), segments))

\* The outcomes of a call made after other calls.
alignAfter(left, text, tr) ==
    IF missingInput(text, tr) THEN withCache({[error |-> ErrMissing, result |-> NoResult]}, left)
    ELSE alignLinesAfter(left, splitScriptIntoLines(text), tr.segments)

\* The transcript object after a call: the code only reads it.
transcriptAfter(tr) == tr

\* Of the outcomes that differ in the rounding of an average that lies
\* halfway between two thousandths, the one floating-point arithmetic
\* gives: the same for the same operands.
roundedAs(outs, up) ==
    CHOOSE o \in outs : \A o2 \in outs :
        IF up THEN o2.result.stats.avgConfidence <= o.result.stats.avgConfidence
        ELSE o2.result.stats.avgConfidence >= o.result.stats.avgConfidence

\* The arguments of the calls of a process that calls more than once.
MaxCalls == 2

TwiceScripts ==
    { <<"B", " ", "c", ",", " ", "a", " ", "e", " ", "d", ".">>,
      <<"a", " ", "b", " ", "c">>,
      <<"B", " ", "c", ",", " ", "a", " ", "e", " ", "d", ".", "\n", "a", " ", "b", " ", "c">> }

TwiceTranscripts ==
    { tr \in Transcripts :
        /\ tr.segmentsKind = "array"
        /\ Len(tr.segments) \in {0, 2}
        /\ Len(tr.segments) = 2 => tr.segments[1].words # <<>> }

\* ------------------------------------------------------------ the server

\* The values the fields of a project hold in the requests drawn here.
\* project.transcript: null, what transcribeAudio returns (one segment,
\* "A b c," with its words), and the transcripts a PUT body carries (one
\* segment "d" without words; no segment at all).
NullTranscript == [isNull |-> TRUE, segmentsKind |-> "undefined", segments |-> <<>>]

TranscriptOf(segs) == [isNull |-> FALSE, segmentsKind |-> "array", segments |-> segs]

TranscribedAudio ==
    TranscriptOf(<<SegmentAt(CHOOSE tpl \in SegmentPool : tpl.words # <<>>, 0)>>)

EditedTranscript ==
    TranscriptOf(<<SegmentAt(CHOOSE tpl \in SegmentPool : tpl.words = <<>>, 0)>>)

EmptiedTranscript == TranscriptOf(<<>>)

\* req.body.text of POST /script: "a b c"; no text is the empty string.
EditScriptText == <<"a", " ", "b", " ", "c">>

\* The project file POST /api/upload writes: no transcript, no script, no
\* editScript and no alignment yet.
UploadedProject ==
    [name |-> "uploaded name", transcript |-> NullTranscript, script |-> "null",
     status |-> "uploaded", editScript |-> <<>>, alignment |-> NoResult]

\* The request bodies: the field a body carries and its value.
NoBody == [field |-> "none", val |-> <<>>]

Requests ==
    { [route |-> "transcribe", body |-> NoBody],
      [route |-> "put", body |-> [field |-> "name", val |-> "new name"]],
      [route |-> "put", body |-> [field |-> "transcript", val |-> EditedTranscript]],
      [route |-> "put", body |-> [field |-> "transcript", val |-> EmptiedTranscript]],
      [route |-> "script", body |-> [field |-> "text", val |-> EditScriptText]],
      [route |-> "script", body |-> NoBody],
      [route |-> "align", body |-> NoBody],
      [route |-> "organize", body |-> NoBody],
      [route |-> "assembly", body |-> NoBody] }

\* The number of requests the server receives.
MaxRequests == 3

\* PUT: the three assignments guarded by "!== undefined".
putFields(project, body) ==
    [project EXCEPT
        !.transcript = IF body.field = "transcript" THEN body.val ELSE @,
        !.script = IF body.field = "script" THEN body.val ELSE @,
        !.name = IF body.field = "name" THEN body.val ELSE @]

\* POST /script: project.editScript = text; project.alignment = null
scriptFields(project, text) ==
    [project EXCEPT !.editScript = text, !.alignment = NoResult]

\* ------------------------------------------------------ the state machine

VARIABLES
    scriptText,   \* the scriptText argument of the call
    transcript,   \* the transcript argument of the call
    pc,           \* "ready" before the call, then "returned" or "threw"
    result,       \* the AlignmentResult returned
    error,        \* the message of the Error thrown, "" if none
    fn,           \* the internal function applied on its own, "" if none
    args,         \* the arguments it is applied to
    value,        \* the value it returned
    segWordCache, \* the Map the latest call of dpAlign built
    calls,        \* the calls made so far: arguments and outcome
    halfRoundsUp, \* the side floating-point rounding takes on a half
    stored,       \* the project file of the server
    handlers      \* the requests received: route, body, position, the
                  \* handler's own copy of the project, the status sent,
                  \* and the requests in flight when it was sent

vars == <<scriptText, transcript, pc, result, error, fn, args, value,
          segWordCache, calls, halfRoundsUp, stored, handlers>>

\* No server runs.
NoServer == stored = UploadedProject /\ handlers = <<>>

serverVars == <<stored, handlers>>

\* A process that makes one call.
OneCall == segWordCache = EmptyMap /\ calls = <<>> /\ halfRoundsUp = FALSE

processVars == <<segWordCache, calls, halfRoundsUp>>

\* No internal function is applied on its own.
NoCall == fn = "" /\ args = <<>> /\ value = <<>>

Init ==
    /\ scriptText \in Scripts
    /\ transcript \in Transcripts
    /\ pc = "ready"
    /\ result = NoResult
    /\ error = ""
    /\ NoCall
    /\ OneCall
    /\ NoServer

\* A call that ends in a throw.
AlignThrows ==
    /\ pc = "ready"
    /\ \E out \in alignScriptToTranscript(scriptText, transcript) :
           /\ out.error # ""
           /\ pc' = "threw"
           /\ error' = out.error
           /\ result' = out.result
    /\ UNCHANGED <<scriptText, transcript, fn, args, value, processVars, serverVars>>

\* A call that returns.
AlignReturns ==
    /\ pc = "ready"
    /\ \E out \in alignScriptToTranscript(scriptText, transcript) :
           /\ out.error = ""
           /\ pc' = "returned"
           /\ error' = ""
           /\ result' = out.result
    /\ UNCHANGED <<scriptText, transcript, fn, args, value, processVars, serverVars>>

Next == AlignThrows \/ AlignReturns

Spec == Init /\ [][Next]_vars

\* The calls on transcripts whose segments carry no word-level timestamps.
InitPlain ==
    /\ scriptText \in PlainScripts
    /\ transcript \in PlainTranscripts
    /\ pc = "ready"
    /\ result = NoResult
    /\ error = ""
    /\ NoCall
    /\ OneCall
    /\ NoServer

SpecPlain == InitPlain /\ [][Next]_vars

\* ------------------------------------------- a process that calls again

InitTwice ==
    /\ scriptText \in TwiceScripts
    /\ transcript \in TwiceTranscripts
    /\ pc = "ready"
    /\ result = NoResult
    /\ error = ""
    /\ NoCall
    /\ segWordCache = EmptyMap
    /\ calls = <<>>
    /\ halfRoundsUp \in BOOLEAN
    /\ NoServer

\* The call made, with outcome out.
Called(out) ==
    /\ error' = out.error
    /\ result' = out.result
    /\ segWordCache' = out.cache
    /\ transcript' = transcriptAfter(transcript)
    /\ calls' = Append(calls, [scriptText |-> scriptText, transcript |-> transcript,
                               error |-> out.error, result |-> out.result])
    /\ UNCHANGED <<scriptText, halfRoundsUp, fn, args, value, serverVars>>

CallThrows ==
    /\ pc = "ready"
    /\ roundedAs(alignAfter(segWordCache, scriptText, transcript), halfRoundsUp).error # ""
    /\ pc' = "threw"
    /\ Called(roundedAs(alignAfter(segWordCache, scriptText, transcript), halfRoundsUp))

CallReturns ==
    /\ pc = "ready"
    /\ roundedAs(alignAfter(segWordCache, scriptText, transcript), halfRoundsUp).error = ""
    /\ pc' = "returned"
    /\ Called(roundedAs(alignAfter(segWordCache, scriptText, transcript), halfRoundsUp))

\* The caller goes on to its next call.
CallerMovesOn ==
    /\ pc \in {"threw", "returned"}
    /\ Len(calls) < MaxCalls
    /\ scriptText' \in TwiceScripts
    /\ transcript' \in TwiceTranscripts
    /\ pc' = "ready"
    /\ result' = NoResult
    /\ error' = ""
    /\ UNCHANGED <<segWordCache, calls, halfRoundsUp, fn, args, value, serverVars>>

NextTwice == CallThrows \/ CallReturns \/ CallerMovesOn

SpecTwice == InitTwice /\ [][NextTwice]_vars

\* ---------------------------------- the internal functions on their own

\* No call of alignScriptToTranscript is under way.
NoAlign ==
    /\ scriptText = <<>>
    /\ transcript = [isNull |-> TRUE, segmentsKind |-> "undefined", segments |-> <<>>]
    /\ pc = "off"
    /\ result = NoResult
    /\ error = ""
    /\ OneCall
    /\ NoServer

alignVars == <<scriptText, transcript, pc, result, error, processVars, serverVars>>

\* The scoring functions applied to two token sequences.
InitScore ==
    /\ NoAlign
    /\ fn = ""
    /\ args \in TokenSeqs \X TokenSeqs
    /\ value = <<>>

CallJaccard ==
    /\ fn = ""
    /\ fn' = "jaccard"
    /\ value' = jaccard(args[1], args[2])
    /\ UNCHANGED <<alignVars, args>>

CallLcsRatio ==
    /\ fn = ""
    /\ fn' = "lcsRatio"
    /\ value' = lcsRatio(args[1], args[2])
    /\ UNCHANGED <<alignVars, args>>

CallCombinedScore ==
    /\ fn = ""
    /\ fn' = "combinedScore"
    /\ value' = combinedScore(args[1], args[2])
    /\ UNCHANGED <<alignVars, args>>

CallLcsLength ==
    /\ fn = ""
    /\ fn' = "lcsLength"
    /\ value' = lcsLength(args[1], args[2])
    /\ UNCHANGED <<alignVars, args>>

CallWordOrderScore ==
    /\ fn = ""
    /\ fn' = "wordOrderScore"
    /\ value' = wordOrderScore(args[1], args[2])
    /\ UNCHANGED <<alignVars, args>>

NextScore ==
    \/ CallJaccard
    \/ CallLcsRatio
    \/ CallCombinedScore
    \/ CallLcsLength
    \/ CallWordOrderScore

SpecScore == InitScore /\ [][NextScore]_vars

\* normalize and tokenize applied to a text.
InitText ==
    /\ NoAlign
    /\ fn = ""
    /\ args \in { <<t>> : t \in Texts }
    /\ value = <<>>

CallNormalize ==
    /\ fn = ""
    /\ fn' = "normalize"
    /\ value' = normalize(args[1])
    /\ UNCHANGED <<alignVars, args>>

CallTokenize ==
    /\ fn = ""
    /\ fn' = "tokenize"
    /\ value' = tokenize(args[1])
    /\ UNCHANGED <<alignVars, args>>

NextText == CallNormalize \/ CallTokenize

SpecText == InitText /\ [][NextText]_vars

\* trimToWords, and its two searches, applied to a line and a window.
InitTrim ==
    /\ NoAlign
    /\ fn = ""
    /\ args \in TrimArgs
    /\ value = <<>>

CallTrimToWords ==
    /\ fn = ""
    /\ fn' = "trimToWords"
    /\ value' = trimToWords(args[1], args[2])
    /\ UNCHANGED <<alignVars, args>>

\* The searches run when neither early return is taken.
CallWordSearch ==
    /\ fn = ""
    /\ Len(tokenize(args[1])) > 0
    /\ Len(collectWords(args[2])) > 0
    /\ fn' = "wordSearch"
    /\ value' = wordSearch(tokenize(args[1]), collectWords(args[2]))
    /\ UNCHANGED <<alignVars, args>>

NextTrim == CallTrimToWords \/ CallWordSearch

SpecTrim == InitTrim /\ [][NextTrim]_vars

\* splitScriptIntoLines applied to a script.
InitSplit ==
    /\ NoAlign
    /\ fn = ""
    /\ args \in { <<t>> : t \in RawScripts }
    /\ value = <<>>

CallSplitScriptIntoLines ==
    /\ fn = ""
    /\ fn' = "splitScriptIntoLines"
    /\ value' = splitScriptIntoLines(args[1])
    /\ UNCHANGED <<alignVars, args>>

NextSplit == CallSplitScriptIntoLines

SpecSplit == InitSplit /\ [][NextSplit]_vars

\* ------------------------------------------------ the server's requests

\* Everything but the server.
engineVars == <<scriptText, transcript, pc, result, error, processVars, fn, args, value>>

\* The project is uploaded, or uploaded and transcribed; no request yet.
InitServer ==
    /\ scriptText = <<>>
    /\ transcript = NullTranscript
    /\ pc = "off"
    /\ result = NoResult
    /\ error = ""
    /\ OneCall
    /\ NoCall
    /\ stored \in { UploadedProject,
                    [UploadedProject EXCEPT !.transcript = TranscribedAudio,
                                            !.status = "transcribed"] }
    /\ handlers = <<>>

\* A request arrives: its handler is called.
Receive(req) ==
    /\ Len(handlers) < MaxRequests
    /\ handlers' = Append(handlers, [route |-> req.route, body |-> req.body, at |-> "received",
                                     project |-> UploadedProject, code |-> 0,
                                     inFlight |-> {}])
    /\ UNCHANGED <<stored, engineVars>>

\* loadProject reads the file.
Load(i) ==
    /\ handlers[i].at = "received"
    /\ handlers' = [handlers EXCEPT ![i].at = "loaded", ![i].project = stored]
    /\ UNCHANGED <<stored, engineVars>>

\* The requests received and not answered yet, but for request i.
InFlightBut(i) == { j \in 1..Len(handlers) : j # i /\ handlers[j].at # "done" }

\* The handler responds with a status and without saving.
Responds(i, code) ==
    /\ handlers' = [handlers EXCEPT ![i].at = "done", ![i].code = code,
                                    ![i].inFlight = InFlightBut(i)]
    /\ UNCHANGED <<stored, engineVars>>

\* saveProject(project) writes the handler's copy; then the response.
SavesAndResponds(i, project) ==
    /\ stored' = project
    /\ handlers' = [handlers EXCEPT ![i].at = "done", ![i].code = 200, ![i].project = project,
                                    ![i].inFlight = InFlightBut(i)]
    /\ UNCHANGED engineVars

Loaded(i, route) == handlers[i].route = route /\ handlers[i].at = "loaded"

Waiting(i, route) == handlers[i].route = route /\ handlers[i].at = "waiting"

\* PUT /api/projects/:id
PutSaves(i) ==
    /\ Loaded(i, "put")
    /\ SavesAndResponds(i, putFields(handlers[i].project, handlers[i].body))

\* POST /api/projects/:id/script
ScriptRejects(i) ==
    /\ Loaded(i, "script")
    /\ handlers[i].body.field # "text"
    /\ Responds(i, 400)

ScriptSaves(i) ==
    /\ Loaded(i, "script")
    /\ handlers[i].body.field = "text"
    /\ SavesAndResponds(i, scriptFields(handlers[i].project, handlers[i].body.val))

\* POST /api/projects/:id/align
AlignRejects(i) ==
    /\ Loaded(i, "align")
    /\ handlers[i].project.editScript = <<>> \/ handlers[i].project.transcript.isNull
    /\ Responds(i, 400)

AlignFails(i) ==
    /\ Loaded(i, "align")
    /\ handlers[i].project.editScript # <<>>
    /\ ~handlers[i].project.transcript.isNull
    /\ \E o \in alignScriptToTranscript(handlers[i].project.editScript,
                                        handlers[i].project.transcript) : o.error # ""
    /\ Responds(i, 500)

AlignSaves(i) ==
    /\ Loaded(i, "align")
    /\ handlers[i].project.editScript # <<>>
    /\ ~handlers[i].project.transcript.isNull
    /\ \E o \in alignScriptToTranscript(handlers[i].project.editScript,
                                        handlers[i].project.transcript) :
          /\ o.error = ""
          /\ SavesAndResponds(i, [handlers[i].project EXCEPT !.alignment = o.result])

\* POST /api/projects/:id/export/assembly
AssemblyRejects(i) ==
    /\ Loaded(i, "assembly")
    /\ handlers[i].project.alignment = NoResult
    /\ Responds(i, 400)

AssemblyExports(i) ==
    /\ Loaded(i, "assembly")
    /\ handlers[i].project.alignment # NoResult
    /\ Responds(i, 200)

\* POST /api/projects/:id/transcribe: status 'transcribing' is saved, then
\* transcribeAudio is awaited.
TranscribeMarks(i) ==
    /\ Loaded(i, "transcribe")
    /\ stored' = [handlers[i].project EXCEPT !.status = "transcribing"]
    /\ handlers' = [handlers EXCEPT ![i].at = "waiting",
                                    ![i].project = [@ EXCEPT !.status = "transcribing"]]
    /\ UNCHANGED engineVars

TranscribeSaves(i) ==
    /\ Waiting(i, "transcribe")
    /\ SavesAndResponds(i, [handlers[i].project EXCEPT !.transcript = TranscribedAudio,
                                                       !.status = "transcribed"])

\* transcribeAudio rejects: the catch block responds.
TranscribeFails(i) ==
    /\ Waiting(i, "transcribe")
    /\ Responds(i, 500)

\* POST /api/projects/:id/organize
OrganizeRejects(i) ==
    /\ Loaded(i, "organize")
    /\ handlers[i].project.transcript.isNull
    /\ Responds(i, 400)

OrganizeStarts(i) ==
    /\ Loaded(i, "organize")
    /\ ~handlers[i].project.transcript.isNull
    /\ handlers' = [handlers EXCEPT ![i].at = "waiting"]
    /\ UNCHANGED <<stored, engineVars>>

OrganizeSaves(i) ==
    /\ Waiting(i, "organize")
    /\ SavesAndResponds(i, [handlers[i].project EXCEPT !.script = "organized script",
                                                       !.status = "organized"])

OrganizeFails(i) ==
    /\ Waiting(i, "organize")
    /\ Responds(i, 500)

NextServer ==
    \/ \E req \in Requests : Receive(req)
    \/ \E i \in 1..Len(handlers) : Load(i)
    \/ \E i \in 1..Len(handlers) : PutSaves(i)
    \/ \E i \in 1..Len(handlers) : ScriptRejects(i)
    \/ \E i \in 1..Len(handlers) : ScriptSaves(i)
    \/ \E i \in 1..Len(handlers) : AlignRejects(i)
    \/ \E i \in 1..Len(handlers) : AlignFails(i)
    \/ \E i \in 1..Len(handlers) : AlignSaves(i)
    \/ \E i \in 1..Len(handlers) : AssemblyRejects(i)
    \/ \E i \in 1..Len(handlers) : AssemblyExports(i)
    \/ \E i \in 1..Len(handlers) : TranscribeMarks(i)
    \/ \E i \in 1..Len(handlers) : TranscribeSaves(i)
    \/ \E i \in 1..Len(handlers) : TranscribeFails(i)
    \/ \E i \in 1..Len(handlers) : OrganizeRejects(i)
    \/ \E i \in 1..Len(handlers) : OrganizeStarts(i)
    \/ \E i \in 1..Len(handlers) : OrganizeSaves(i)
    \/ \E i \in 1..Len(handlers) : OrganizeFails(i)

SpecServer == InitServer /\ [][NextServer]_vars

\* The fill and the traceback of dpAlign applied to a score table.
InitFill ==
    /\ NoAlign
    /\ fn = ""
    /\ args \in FillArgs
    /\ value = <<>>

CallDpTable ==
    /\ fn = ""
    /\ fn' = "dpTable"
    /\ value' = dpTable(args[1], args[2], args[3])
    /\ UNCHANGED <<alignVars, args>>

CallAlignByScore ==
    /\ fn = ""
    /\ fn' = "alignByScore"
    /\ value' = alignByScore(args[1], args[2], args[3])
    /\ UNCHANGED <<alignVars, args>>

NextFill == CallDpTable \/ CallAlignByScore

SpecFill == InitFill /\ [][NextFill]_vars


\* ------------------------------------------------------------ properties

\* The inputs of the call as the properties read them.
Segments == transcript.segments
NumSegments == Len(transcript.segments)
ScriptLinesOf == splitScriptIntoLines(scriptText)
TokensOfLine(i) == tokenize(ScriptLinesOf[i])
Entries == result.entries
Claimed(e) == Range(e.matchedSegments)
IsMatchedEntry(e) == e.matchedSegments # <<>>

\* The concatenated tokens of segments t2 .. t2 + span - 1 (0-based).
WindowTokens(t2, span) ==
    tokenize(JoinSpace([k \in 1..span |-> Segments[t2 + k].text]))

\* The unrounded score of line i (1-based) against a window.
LineScore(i, t2, span) == combinedScore(TokensOfLine(i), WindowTokens(t2, span))

\* The unrounded score behind entry i: that of its line against the window
\* it lists, 0 when it lists none.
EntryScore(i) ==
    IF IsMatchedEntry(Entries[i])
    THEN LineScore(i, Entries[i].matchedSegments[1], Len(Entries[i].matchedSegments))
    ELSE 0

RECURSIVE SumTo(_, _)
SumTo(f, n) == IF n = 0 THEN 0 ELSE f[n] + SumTo(f, n - 1)

MaxOfSet(S) == CHOOSE m \in S : \A x \in S : x <= m

\* Every window of 1 to 3 segments, as <<first index, length>>; <<-1, 0>>
\* stands for "the line is skipped".
Windows == {w \in (0..(NumSegments - 1)) \X (1..3) : w[1] + w[2] <= NumSegments}
Skipped == <<-1, 0>>

\* The unrounded score of every line against every window.
WindowScores ==
    [i \in 1..Len(ScriptLinesOf) |-> [w \in Windows |-> LineScore(i, w[1], w[2])]]

\* The totals of the assignments the optimum ranges over, for the lines
\* from i on and the segments from index t on, given the scores sc: line i
\* is skipped, or given a window of score >= 0.15 that starts at t or
\* later, and the lines after it get the segments behind that window.
RECURSIVE AdmissibleTotals(_, _, _)
AdmissibleTotals(sc, i, t) ==
    IF i > Len(sc) THEN {0}
    ELSE AdmissibleTotals(sc, i + 1, t)
         \cup UNION { { sc[i][w] + x : x \in AdmissibleTotals(sc, i + 1, w[1] + w[2]) } :
                        w \in { v \in Windows : v[1] >= t /\ 100 * sc[i][v] >= 15 * SCALE } }

\* The sum of the scores of the matched entries.
EntriesTotal == SumTo([i \in 1..Len(Entries) |-> EntryScore(i)], Len(Entries))

\* C1: the assignment returned is a global optimum: the sum of the scores
\* of its matched entries is the largest total of any admissible assignment
\* (each line skipped or given one window of 1 to 3 segments with score
\* >= 0.15, no segment used twice, windows in script order).
C1_GlobalOptimum ==
    pc = "returned" => EntriesTotal = MaxOfSet(AdmissibleTotals(WindowScores, 1, 0))

\* A result with two matched entries in which one line took a window that
\* scores less than another window of the transcript does for it: the
\* optimum gave up that line's best window.
C1_Witness ==
    /\ pc = "returned"
    /\ Len(Entries) = 2
    /\ \A i \in 1..2 : IsMatchedEntry(Entries[i])
    /\ \E i \in 1..2 : \E w \in Windows : LineScore(i, w[1], w[2]) > EntryScore(i)

\* C2: the matchedSegments of distinct entries are disjoint, and every
\* index of a later entry is greater than every index of an earlier one.
C2_DisjointInOrder ==
    pc = "returned" =>
        \A i, j \in 1..Len(Entries) :
            i < j => \A a \in Claimed(Entries[i]) : \A b \in Claimed(Entries[j]) : a < b

C2_Witness ==
    /\ pc = "returned"
    /\ \E i, j \in 1..Len(Entries) :
          i < j /\ IsMatchedEntry(Entries[i]) /\ IsMatchedEntry(Entries[j])

\* C3: one entry per split line, in script order: entry i has scriptIndex
\* i (0-based) and the i-th line as its scriptLine.
C3_OneEntryPerLine ==
    pc = "returned" =>
        /\ Len(Entries) = Len(ScriptLinesOf)
        /\ \A i \in 1..Len(Entries) :
              /\ Entries[i].scriptIndex = i - 1
              /\ Entries[i].scriptLine = ScriptLinesOf[i]

\* Two lines, the first skipped and the second matched.
C3_Witness ==
    /\ pc = "returned"
    /\ Len(Entries) = 2
    /\ ~IsMatchedEntry(Entries[1])
    /\ IsMatchedEntry(Entries[2])

\* C4: a non-empty matchedSegments lists 1 to 3 consecutive ascending
\* indices, all of them indices of transcript segments.
C4_RangeShape ==
    pc = "returned" =>
        \A i \in 1..Len(Entries) :
            LET ms == Entries[i].matchedSegments
            IN  ms # <<>> =>
                  /\ Len(ms) \in 1..3
                  /\ \A k \in 1..Len(ms) : ms[k] = ms[1] + (k - 1)
                  /\ ms[1] >= 0
                  /\ ms[Len(ms)] <= NumSegments - 1

\* An entry that lists three segments.
C4_Witness ==
    /\ pc = "returned"
    /\ \E i \in 1..Len(Entries) : Len(Entries[i].matchedSegments) = 3

\* A text that is empty or holds whitespace only.
IsBlank(text) == \A k \in 1..Len(text) : text[k] \in WhitespaceChars

InvalidInput ==
    \/ IsBlank(scriptText)
    \/ transcript.isNull
    \/ transcript.segmentsKind # "array"
    \/ Len(transcript.segments) = 0
    \/ Len(ScriptLinesOf) = 0

Statuses == {"matched", "approximate", "unmatched"}

\* C5: the call raises an error and returns nothing exactly when the
\* script is empty or whitespace-only, the transcript is absent, its
\* segments are missing, not a list or empty, or the split yields no line;
\* in every other case it returns a complete result.
C5_ErrorsExactly ==
    pc # "ready" =>
        /\ (pc = "threw") <=> InvalidInput
        /\ pc = "threw" => (error # "" /\ result = NoResult)
        /\ pc = "returned" =>
              /\ error = ""
              /\ Len(Entries) >= 1
              /\ result.stats.totalLines = Len(Entries)
              /\ \A i \in 1..Len(Entries) : Entries[i].status \in Statuses

\* A whitespace-only script that is not empty, with a usable transcript:
\* the first guard lets it pass and the split yields no line.
C5_Witness ==
    /\ pc = "threw"
    /\ scriptText # <<>>
    /\ IsBlank(scriptText)
    /\ ~transcript.isNull
    /\ Len(transcript.segments) > 0

\* The status the 0.3 and 0.7 thresholds give a confidence in thousandths.
StatusByConfidence(c) ==
    IF c >= 700 THEN "matched" ELSE IF c >= 300 THEN "approximate" ELSE "unmatched"

\* The status the 0.3 and 0.7 thresholds give an unrounded score.
StatusByScore(sc) ==
    IF 10 * sc >= 7 * SCALE THEN "matched"
    ELSE IF 10 * sc >= 3 * SCALE THEN "approximate"
    ELSE "unmatched"

\* C6 as stated: the status is the one the thresholds give the reported
\* (rounded) confidence.
C6_StatusByConfidence ==
    pc = "returned" =>
        \A i \in 1..Len(Entries) :
            Entries[i].status = StatusByConfidence(Entries[i].confidence)

\* C6, amended: the status is the one the 0.3 and 0.7 thresholds give the
\* unrounded score; it is the one they give the reported confidence unless
\* that confidence is exactly 0.3 or 0.7, where the score may lie up to
\* 0.0005 below the threshold and the status is the lower one.
C6_StatusByScore ==
    pc = "returned" =>
        \A i \in 1..Len(Entries) :
            /\ Entries[i].status = StatusByScore(EntryScore(i))
            /\ Entries[i].confidence \notin {300, 700} =>
                  Entries[i].status = StatusByConfidence(Entries[i].confidence)
            /\ Entries[i].confidence \in {300, 700} =>
                  Entries[i].status \in
                      { StatusByConfidence(Entries[i].confidence),
                        StatusByConfidence(Entries[i].confidence - 1) }

\* An entry reported with confidence 0.7 whose status is "approximate".
C6_Witness ==
    /\ pc = "returned"
    /\ \E i \in 1..Len(Entries) :
          Entries[i].confidence = 700 /\ Entries[i].status = "approximate"

\* C7: every score of a line against a window lies in [0, 1], and so does
\* the confidence of every entry.
C7_ScoreInUnitInterval ==
    pc = "returned" =>
        /\ \A i \in 1..Len(ScriptLinesOf) : \A w \in Windows :
              LineScore(i, w[1], w[2]) \in 0..SCALE
        /\ \A i \in 1..Len(Entries) : Entries[i].confidence \in 0..1000

\* Both ends are reached: one entry with confidence 1, one with 0.
C7_Witness ==
    /\ pc = "returned"
    /\ \E i, j \in 1..Len(Entries) :
          Entries[i].confidence = 1000 /\ Entries[j].confidence = 0

\* The assignments behind the result.
AssignmentsOf ==
    dpAlign([i \in 1..Len(ScriptLinesOf) |-> TokensOfLine(i)], Segments)

\* C8: an entry made from a matched assignment of score sc has the status
\* the thresholds give sc; when that is "unmatched" (0.15 <= sc < 0.3) it
\* still lists its segments, has trimmed times, and its segments are not
\* among the unused ones.
C8_LowScoreMatch ==
    pc = "returned" =>
        LET assignments == AssignmentsOf
        IN  \A i \in 1..Len(assignments) :
              LET a == assignments[i]
                  e == Entries[i]
              IN  a.segStart >= 0 =>
                    /\ e.status = StatusByScore(a.score)
                    /\ 100 * a.score >= 15 * SCALE
                    /\ 10 * a.score < 3 * SCALE =>
                          /\ e.status = "unmatched"
                          /\ e.matchedSegments # <<>>
                          /\ Claimed(e) = a.segStart..(a.segEnd - 1)
                          /\ e.trimmedStart # Null
                          /\ e.trimmedEnd # Null
                          /\ Claimed(e) \cap Range(result.unusedSegments) = {}

\* An entry with status "unmatched" that lists a segment.
C8_Witness ==
    /\ pc = "returned"
    /\ \E i \in 1..Len(Entries) :
          Entries[i].status = "unmatched" /\ IsMatchedEntry(Entries[i])

\* C9: unusedSegments is the ascending list of the segment indices that no
\* entry lists.
C9_UnusedExactly ==
    pc = "returned" =>
        LET unused == result.unusedSegments
            used == UNION { Claimed(Entries[i]) : i \in 1..Len(Entries) }
        IN  /\ \A k \in 1..(Len(unused) - 1) : unused[k] < unused[k + 1]
            /\ Range(unused) = (0..(NumSegments - 1)) \ used
            /\ Range(unused) \cap used = {}
            /\ Range(unused) \cup used = 0..(NumSegments - 1)

\* A result with an entry of two or more segments and an unused segment.
C9_Witness ==
    /\ pc = "returned"
    /\ result.unusedSegments # <<>>
    /\ \E i \in 1..Len(Entries) : Len(Entries[i].matchedSegments) >= 2

\* The tokens of all the segment texts of the transcript.
TranscriptTokens == UNION { Range(tokenize(Segments[k].text)) : k \in 1..NumSegments }

\* C10: a line that shares no token with any segment text (a line without
\* tokens included) gives an entry with status "unmatched", no segments,
\* confidence 0 and null trimmed times.
C10_NoSharedToken ==
    pc = "returned" =>
        \A i \in 1..Len(Entries) :
            Range(TokensOfLine(i)) \cap TranscriptTokens = {} =>
                /\ Entries[i].status = "unmatched"
                /\ Entries[i].matchedSegments = <<>>
                /\ Entries[i].confidence = 0
                /\ Entries[i].trimmedStart = Null
                /\ Entries[i].trimmedEnd = Null

\* A line with tokens, none of them in the transcript, beside a line that
\* is matched.
C10_Witness ==
    /\ pc = "returned"
    /\ \E i, j \in 1..Len(Entries) :
          /\ TokensOfLine(i) # <<>>
          /\ Range(TokensOfLine(i)) \cap TranscriptTokens = {}
          /\ IsMatchedEntry(Entries[j])

\* The positions of the entries with confidence > 0, and the sum of their
\* confidences (in thousandths).
PositiveEntries == {i \in 1..Len(Entries) : Entries[i].confidence > 0}
PositiveSum == SumTo([i \in 1..Len(Entries) |-> Entries[i].confidence], Len(Entries))

\* C14 as stated: avgConfidence is the arithmetic mean of the confidences
\* that are > 0, and 0 when there is none.
C14_ExactMean ==
    pc = "returned" =>
        IF PositiveEntries = {} THEN result.stats.avgConfidence = 0
        ELSE result.stats.avgConfidence * Cardinality(PositiveEntries) = PositiveSum

\* C14, amended: avgConfidence is the arithmetic mean of the confidences
\* that are > 0 rounded to three decimals, so within 0.0005 of that mean,
\* and 0 when no entry has confidence > 0.
C14_RoundedMean ==
    pc = "returned" =>
        IF PositiveEntries = {} THEN result.stats.avgConfidence = 0
        ELSE LET n == Cardinality(PositiveEntries)
             IN  2 * Abs(result.stats.avgConfidence * n - PositiveSum) <= n

\* Two entries with confidence > 0 whose mean is no whole number of
\* thousandths, beside nothing else.
C14_Witness ==
    /\ pc = "returned"
    /\ Cardinality(PositiveEntries) = 2
    /\ PositiveSum % 2 = 1

\* The number of entries with a status.
EntriesWithStatus(st) == Cardinality({i \in 1..Len(Entries) : Entries[i].status = st})

\* C15: totalLines is the number of entries, matched, approximate and
\* unmatched are the numbers of entries with that status, and the three
\* add up to totalLines.
C15_StatsCounts ==
    pc = "returned" =>
        /\ result.stats.totalLines = Len(Entries)
        /\ result.stats.matched = EntriesWithStatus("matched")
        /\ result.stats.approximate = EntriesWithStatus("approximate")
        /\ result.stats.unmatched = EntriesWithStatus("unmatched")
        /\ result.stats.matched + result.stats.approximate + result.stats.unmatched
             = result.stats.totalLines

\* Two entries with status "unmatched", one of them listing a segment.
C15_Witness ==
    /\ pc = "returned"
    /\ result.stats.unmatched = 2
    /\ \E i \in 1..Len(Entries) :
          Entries[i].status = "unmatched" /\ IsMatchedEntry(Entries[i])

\* One line and one segment whose text gives the tokens of the line, at
\* least one.
SameTokensPair ==
    /\ Len(ScriptLinesOf) = 1
    /\ NumSegments = 1
    /\ TokensOfLine(1) # <<>>
    /\ tokenize(Segments[1].text) = TokensOfLine(1)

\* C11: a single line against a single segment with the same non-empty
\* token sequence gives one entry with status "matched", confidence >= 0.9
\* and matchedSegments = [0]; when the segment has no word list the trimmed
\* times are the start and the end of the segment.
C11_SameTokens ==
    (pc # "ready" /\ SameTokensPair) =>
        /\ pc = "returned"
        /\ Len(Entries) = 1
        /\ Entries[1].status = "matched"
        /\ Entries[1].confidence >= 900
        /\ Entries[1].matchedSegments = <<0>>
        /\ Segments[1].words = <<>> =>
              /\ Entries[1].trimmedStart = Num(Segments[1].start)
              /\ Entries[1].trimmedEnd = Num(Segments[1].end)

\* The line "a!" against the segment "A." without words: confidence 0.9.
C11_Witness ==
    /\ pc = "returned"
    /\ SameTokensPair
    /\ Segments[1].words = <<>>
    /\ scriptText # Segments[1].text
    /\ Entries[1].confidence = 900

\* The segments an entry lists.
SegmentsOfEntry(e) == [k \in 1..Len(e.matchedSegments) |-> Segments[e.matchedSegments[k] + 1]]

\* C12: when no segment of a matched range has a word list, trimmedStart
\* is the start of the first segment of the range and trimmedEnd is the
\* end of the last one, and the call does not fail.
C12_FullRange ==
    pc # "ready" =>
        /\ (Len(ScriptLinesOf) > 0 /\ NumSegments > 0) => pc = "returned"
        /\ \A i \in 1..Len(Entries) :
              LET segs == SegmentsOfEntry(Entries[i])
              IN  (segs # <<>> /\ \A k \in 1..Len(segs) : segs[k].words = <<>>) =>
                     /\ Entries[i].trimmedStart = Num(segs[1].start)
                     /\ Entries[i].trimmedEnd = Num(segs[Len(segs)].end)

\* C20: every entry that lists segments was made from a window of
\* unrounded score >= 0.15, and an entry has confidence > 0 exactly when it
\* lists segments.
C20_FloorKept ==
    pc = "returned" =>
        \A i \in 1..Len(Entries) :
            /\ IsMatchedEntry(Entries[i]) => 100 * EntryScore(i) >= 15 * SCALE
            /\ (Entries[i].confidence > 0) <=> IsMatchedEntry(Entries[i])

\* A single line left without segments although a window shares words
\* with it: the score of that window is positive and below 0.15.
C20_Witness ==
    /\ pc = "returned"
    /\ Len(Entries) = 1
    /\ ~IsMatchedEntry(Entries[1])
    /\ \E w \in Windows : LineScore(1, w[1], w[2]) > 0 /\ 100 * LineScore(1, w[1], w[2]) < 15 * SCALE

\* The tokens of a sequence are pairwise distinct.
Distinct(seq) == \A i, j \in 1..Len(seq) : i # j => seq[i] # seq[j]

\* C16: jaccard(X, X) = 1 and lcsRatio(X, X) = 1 for every non-empty token
\* sequence X of pairwise distinct tokens.
C16_SelfSimilarity ==
    (fn \in {"jaccard", "lcsRatio"} /\ args[1] = args[2] /\ args[1] # <<>> /\ Distinct(args[1]))
        => value = SCALE

\* lcsRatio applied to a sequence of three distinct tokens and itself.
C16_Witness ==
    /\ fn = "lcsRatio"
    /\ args[1] = args[2]
    /\ Len(args[1]) = 3
    /\ Distinct(args[1])
    /\ value = SCALE

\* C17: combinedScore is exactly 0 when either argument is the empty
\* token sequence, whatever the other one is.
C17_EmptyScoresZero ==
    (fn = "combinedScore" /\ (args[1] = <<>> \/ args[2] = <<>>)) => value = 0

\* combinedScore applied to the empty sequence and one of three tokens.
C17_Witness ==
    /\ fn = "combinedScore"
    /\ args[1] = <<>>
    /\ Len(args[2]) = 3
    /\ value = 0

\* The maximal runs of word characters and apostrophes of a text, in
\* lower case, in order; cur is the run being read.
RECURSIVE KeptRunsFrom(_, _)
KeptRunsFrom(text, cur) ==
    IF text = <<>> THEN (IF cur # <<>> THEN <<cur>> ELSE <<>>)
    ELSE IF Head(text) \in WordChars \/ Head(text) = "'"
         THEN KeptRunsFrom(Tail(text), Append(cur, toLowerCaseChar(Head(text))))
         ELSE (IF cur # <<>> THEN <<cur>> ELSE <<>>) \o KeptRunsFrom(Tail(text), <<>>)

KeptRuns(text) == KeptRunsFrom(text, <<>>)

\* C18 as stated: the characters that are no word character, whitespace
\* or apostrophe are removed, their neighbours becoming adjacent.
C18_PunctRemoved ==
    /\ fn = "normalize" =>
          value = Trim(CollapseSpace(StripPunctRemove(MapLower(args[1]))))
    /\ fn = "tokenize" =>
          LET n == Trim(CollapseSpace(StripPunctRemove(MapLower(args[1]))))
          IN  value = IF n = <<>> THEN <<>> ELSE Split(n, " ")

\* C18, amended: normalize lowercases the text and puts a space in place
\* of every character that is no word character, whitespace or apostrophe,
\* so that the characters on either side of it fall into different words,
\* then collapses each run of whitespace to one space and trims: the
\* result is the maximal runs of word characters and apostrophes, in lower
\* case, joined by single spaces.  tokenize gives those runs, and the
\* empty sequence when there is none.
C18_PunctToSpace ==
    /\ fn = "normalize" => value = JoinSpace(KeptRuns(args[1]))
    /\ fn = "tokenize" => value = KeptRuns(args[1])

\* tokenize applied to "a,B": two tokens.
C18_Witness ==
    /\ fn = "tokenize"
    /\ args[1] = <<"a", ",", "B">>
    /\ value = << <<"a">>, <<"b">> >>

\* The options of line s at segment t for a score table: the skip, and
\* every window that starts at t or later, fits, and scores >= 0.15.
OptionsAt(score, T, s, t) ==
    {SkipChoice} \cup
    { MatchChoice(t2, span) : <<t2, span>> \in
        { w \in (t..(T - 1)) \X (1..MAX_SPAN) :
            w[1] + w[2] <= T /\ 100 * score[s][w[1]][w[2]] >= 15 * SCALE } }

\* The order of the options: the skip, then the windows by ascending
\* start, then by ascending span.
Precedes(o1, o2) ==
    \/ o1.kind = "skip" /\ o2.kind = "match"
    \/ /\ o1.kind = "match" /\ o2.kind = "match"
       /\ (o1.t2 < o2.t2 \/ (o1.t2 = o2.t2 /\ o1.span < o2.span))

\* The largest total the lines from s on can reach with the segments from
\* t on, and the value an option of line s has.
RECURSIVE OptTotal(_, _, _, _, _)
OptionValue(score, S, T, s, o, t) ==
    IF o.kind = "skip" THEN OptTotal(score, S, T, s + 1, t)
    ELSE score[s][o.t2][o.span] + OptTotal(score, S, T, s + 1, o.t2 + o.span)

OptTotal(score, S, T, s, t) ==
    IF s >= S THEN 0
    ELSE MaxOfSet({ OptionValue(score, S, T, s, o, t) : o \in OptionsAt(score, T, s, t) })

\* The first, in their order, of the options of the largest value.
FirstBest(score, S, T, s, t) ==
    CHOOSE o \in OptionsAt(score, T, s, t) :
        /\ OptionValue(score, S, T, s, o, t) = OptTotal(score, S, T, s, t)
        /\ \A o2 \in OptionsAt(score, T, s, t) :
              OptionValue(score, S, T, s, o2, t) = OptTotal(score, S, T, s, t)
                  => (o2 = o \/ Precedes(o, o2))

\* The windows of the lines from s on when every line takes its first
\* best option: <<-1, -1>> for a skipped line.
RECURSIVE FirstBestPath(_, _, _, _, _)
FirstBestPath(score, S, T, s, t) ==
    IF s >= S THEN <<>>
    ELSE LET o == FirstBest(score, S, T, s, t)
         IN  IF o.kind = "skip"
             THEN << <<-1, -1>> >> \o FirstBestPath(score, S, T, s + 1, t)
             ELSE << <<o.t2, o.t2 + o.span>> >>
                  \o FirstBestPath(score, S, T, s + 1, o.t2 + o.span)

\* C19: dp[s][t] is the largest value of the skip and of every admissible
\* match; of several options of that value the choice recorded is the
\* first in the order skip, ascending t2, ascending span; and the
\* traceback follows those choices.
C19_FirstBestWins ==
    /\ fn = "dpTable" =>
          \A s \in 0..(args[1] - 1) : \A t \in 0..args[2] :
              /\ value[s][t].best = OptTotal(args[3], args[1], args[2], s, t)
              /\ value[s][t].choice = FirstBest(args[3], args[1], args[2], s, t)
    /\ fn = "alignByScore" =>
          /\ Len(value) = args[1]
          /\ [i \in 1..Len(value) |-> <<value[i].segStart, value[i].segEnd>>]
               = FirstBestPath(args[3], args[1], args[2], 0, 0)

\* Two lines and two segments, every window on the floor but segment 1
\* alone for line 1: at (0, 0) skipping line 0 is worth as much as each of
\* its windows, and for line 1 segment 0 alone as much as both segments;
\* line 0 is skipped and line 1 takes segment 0 alone.
C19_Witness ==
    /\ fn = "alignByScore"
    /\ args[1] = 2
    /\ args[2] = 2
    /\ args[3][0] = (0 :> <<FLOOR, FLOOR>> @@ 1 :> <<FLOOR>>)
    /\ args[3][1] = (0 :> <<FLOOR, FLOOR>> @@ 1 :> <<FLOOR - 1>>)
    /\ value[1].segStart = -1
    /\ value[2].segStart = 0
    /\ value[2].segEnd = 1

\* The outcome of a call with these arguments made as the first call of a
\* process.
FirstCallOutcome(c) ==
    LET o == roundedAs(alignScriptToTranscript(c.scriptText, c.transcript), halfRoundsUp)
    IN  [error |-> o.error, result |-> o.result]

\* C13: calls with identical arguments have identical outcomes; the
\* outcome of a call is the one its arguments give in a fresh process,
\* whatever calls came before; and the transcript passed is unchanged
\* when the call ends.
C13_Deterministic ==
    /\ \A i, j \in 1..Len(calls) :
          (calls[i].scriptText = calls[j].scriptText /\ calls[i].transcript = calls[j].transcript)
              => (calls[i].error = calls[j].error /\ calls[i].result = calls[j].result)
    /\ \A i \in 1..Len(calls) :
          [error |-> calls[i].error, result |-> calls[i].result] = FirstCallOutcome(calls[i])
    /\ pc \in {"threw", "returned"} =>
          /\ calls # <<>>
          /\ transcript = calls[Len(calls)].transcript
          /\ scriptText = calls[Len(calls)].scriptText

\* A second call, with other segments than the first, that returns two
\* entries, and a second call with the arguments of the first.
C13_Witness ==
    /\ pc = "returned"
    /\ Len(calls) = 2
    /\ Len(Entries) = 2
    /\ calls[1].error = ""
    /\ calls[1].scriptText = calls[2].scriptText
    /\ calls[1].transcript = calls[2].transcript
    /\ segWordCache # EmptyMap

\* The states (s, t) at which the traceback reads choice, from (s, t) on;
\* the reading of a null choice is the last.
RECURSIVE VisitedFrom(_, _, _, _)
VisitedFrom(s, t, S, table) ==
    IF s >= S THEN <<>>
    ELSE LET c == table[s][t].choice
         IN  IF c.kind = "null" THEN << <<s, t>> >>
             ELSE IF c.kind = "skip" THEN << <<s, t>> >> \o VisitedFrom(s + 1, t, S, table)
             ELSE << <<s, t>> >> \o VisitedFrom(s + 1, c.t2 + c.span, S, table)

Visited == VisitedFrom(0, 0, args[1], dpTable(args[1], args[2], args[3]))

\* C21: the traceback from (0, 0) makes exactly S steps; it pushes one
\* assignment per script line, in script order; every state it visits has
\* 0 <= t <= T and a recorded choice; it never reads an unrecorded one.
C21_TracebackComplete ==
    fn = "alignByScore" =>
        /\ Len(Visited) = args[1]
        /\ \A i \in 1..Len(Visited) :
              /\ Visited[i][1] = i - 1
              /\ Visited[i][2] \in 0..args[2]
              /\ dpTable(args[1], args[2], args[3])[Visited[i][1]][Visited[i][2]].choice
                    \in {SkipChoice} \cup
                        { MatchChoice(w[1], w[2]) : w \in (0..args[2]) \X (1..MAX_SPAN) }
        /\ Len(value) = args[1]
        /\ \A i \in 1..Len(value) : value[i].scriptIdx = i - 1
        /\ \A i \in 1..Len(value) : value[i] # TraceError

\* Two lines: the first takes every segment, so the traceback visits
\* (1, T), where only the skip is left.
C21_Witness ==
    /\ fn = "alignByScore"
    /\ args[1] = 2
    /\ Len(value) = 2
    /\ value[1].segEnd = args[2]
    /\ Visited[2] = <<1, args[2]>>
    /\ value[2].segStart = -1

\* C22: the times trimToWords gives a matched entry are either in order,
\* trimmedStart < trimmedEnd, or the start of the first and the end of the
\* last segment of the range; when the searches end with start >= end,
\* the times are those of the range.
C22_OrderedOrFullRange ==
    fn = "trimToWords" =>
        /\ \/ value.trimmedStart < value.trimmedEnd
           \/ /\ value.trimmedStart = args[2][1].start
              /\ value.trimmedEnd = args[2][Len(args[2])].end
        /\ Len(tokenize(args[1])) > 0 =>
              LET found == wordSearch(tokenize(args[1]), collectWords(args[2]))
              IN  found.trimmedStart >= found.trimmedEnd
                      => /\ value.trimmedStart = args[2][1].start
                         /\ value.trimmedEnd = args[2][Len(args[2])].end

\* "a b" against the words "b", "a": the first word of the line is found
\* after the last one, and the times are those of the segment.
C22_Witness ==
    /\ fn = "trimToWords"
    /\ args[1] = <<"a", " ", "b">>
    /\ Len(args[2]) = 1
    /\ args[2][1].words # <<>>
    /\ args[2][1].text = <<"b", " ", "a">>
    /\ value = [trimmedStart |-> 0, trimmedEnd |-> 10]

\* The flattened word list of a range of segments: the words of the
\* segments in segment order, then word order, a segment without words
\* counting as one word with the segment's text and times.
FlatCount(seg) == IF Len(seg.words) > 0 THEN Len(seg.words) ELSE 1

FlatBefore(segments, j) == SumSeq([i \in 1..(j - 1) |-> FlatCount(segments[i])])

FlatSize(segments) == FlatBefore(segments, Len(segments) + 1)

FlatWordAt(segments, p) ==
    LET j == CHOOSE j \in 1..Len(segments) :
                 /\ FlatBefore(segments, j) < p
                 /\ p <= FlatBefore(segments, j) + FlatCount(segments[j])
        seg == segments[j]
        k == p - FlatBefore(segments, j)
    IN  IF Len(seg.words) > 0
        THEN [text |-> normalize(seg.words[k].text),
              start |-> seg.words[k].start, end |-> seg.words[k].end]
        ELSE [text |-> normalize(seg.text), start |-> seg.start, end |-> seg.end]

\* The positions of the flat words whose normalized text contains the
\* token or is contained in it.
Qualifying(segments, token) ==
    { p \in 1..FlatSize(segments) :
        \/ Includes(FlatWordAt(segments, p).text, token)
        \/ Includes(token, FlatWordAt(segments, p).text) }

\* C23: before the fallback, trimmedStart is the start of the first flat
\* word that contains or is contained in the first token of the line, or
\* the start of the first flat word if there is none; trimmedEnd is the
\* end of the last flat word that does for the last token of the line, or
\* the end of the last flat word.
C23_FirstAndLastWord ==
    fn = "wordSearch" =>
        LET tokens == tokenize(normalize(args[1]))
            firsts == Qualifying(args[2], tokens[1])
            lasts == Qualifying(args[2], tokens[Len(tokens)])
        IN  /\ value.trimmedStart =
                  IF firsts = {} THEN FlatWordAt(args[2], 1).start
                  ELSE FlatWordAt(args[2], CHOOSE p \in firsts : \A q \in firsts : p <= q).start
            /\ value.trimmedEnd =
                  IF lasts = {} THEN FlatWordAt(args[2], FlatSize(args[2])).end
                  ELSE FlatWordAt(args[2], CHOOSE p \in lasts : \A q \in lasts : p >= q).end

\* "ab" against "d", a segment without words, and "c a c": the only word
\* that qualifies is "a", contained in "ab", the third of the flat list.
C23_Witness ==
    /\ fn = "wordSearch"
    /\ args[1] = <<"a", "b">>
    /\ Len(args[2]) = 2
    /\ args[2][1].words = <<>>
    /\ args[2][1].text = <<"d">>
    /\ args[2][2].text = <<"c", " ", "a", " ", "c">>
    /\ Qualifying(args[2], <<"a", "b">>) = {3}
    /\ value = [trimmedStart |-> 14, trimmedEnd |-> 14]

\* The elements of a at the positions in I, in their order.
RECURSIVE PickFrom(_, _, _)
PickFrom(a, I, i) ==
    IF i > Len(a) THEN <<>>
    ELSE IF i \in I THEN <<a[i]>> \o PickFrom(a, I, i + 1)
    ELSE PickFrom(a, I, i + 1)

\* The subsequences of a, contiguous or not.
Subsequences(a) == { PickFrom(a, I, 1) : I \in SUBSET (1..Len(a)) }

\* The length of a longest common subsequence.
LongestCommon(a, b) ==
    MaxOfSet({ Len(c) : c \in Subsequences(a) \cap Subsequences(b) })

\* C24: lcsLength(a, b), computed with two rolling rows, is the length of
\* a longest common subsequence of a and b, the same for (b, a), and at
\* most the length of the shorter sequence.
C24_LongestCommonSubsequence ==
    fn = "lcsLength" =>
        /\ value = LongestCommon(args[1], args[2])
        /\ value = lcsLength(args[2], args[1])
        /\ value <= Min(Len(args[1]), Len(args[2]))

\* "a b c" against "c a c": the longest common subsequence, "a c", is not
\* contiguous in the first.
C24_Witness ==
    /\ fn = "lcsLength"
    /\ args[1] = << <<"a">>, <<"b">>, <<"c">> >>
    /\ args[2] = << <<"c">>, <<"a">>, <<"c">> >>
    /\ value = 2

\* The 0-based position at which token w first occurs in a.
FirstOccurrence(a, w) ==
    (CHOOSE i \in 1..Len(a) : a[i] = w /\ \A k \in 1..Len(a) : a[k] = w => i <= k) - 1

\* The sum, over the tokens of a set, of |posA * db - posB * da|: the
\* absolute differences of the normalized positions, times da * db.
RECURSIVE SumOfDifferences(_, _, _)
SumOfDifferences(tokens, a, b) ==
    IF tokens = {} THEN 0
    ELSE LET w == CHOOSE w \in tokens : TRUE
         IN  Abs(FirstOccurrence(a, w) * Max(Len(b) - 1, 1)
                 - FirstOccurrence(b, w) * Max(Len(a) - 1, 1))
             + SumOfDifferences(tokens \ {w}, a, b)

\* C25: wordOrderScore(a, b) is 0 when a and b share no token, 0.5 when
\* they share one distinct token, and otherwise max(0, 1 - m), m the mean
\* over the distinct shared tokens of the absolute difference of the
\* first positions, each divided by max(length - 1, 1).
C25_WordOrderScore ==
    fn = "wordOrderScore" =>
        LET shared == Range(args[1]) \cap Range(args[2])
            n == Cardinality(shared)
            d == n * Max(Len(args[1]) - 1, 1) * Max(Len(args[2]) - 1, 1)
        IN  /\ n = 0 => value = 0
            /\ n = 1 => 2 * value = SCALE
            /\ n >= 2 =>
                  \* value / SCALE = max(0, 1 - sum / d)
                  value * d
                    = Max(0, SCALE * d - SCALE * SumOfDifferences(shared, args[1], args[2]))

\* "a b a" against "a b": "a" is first at 0 and 0, "b" at 1/2 and 1; the
\* mean difference is 1/4, the score 3/4.
C25_Witness ==
    /\ fn = "wordOrderScore"
    /\ args[1] = << <<"a">>, <<"b">>, <<"a">> >>
    /\ args[2] = << <<"a">>, <<"b">> >>
    /\ 4 * value = 3 * SCALE

\* C27: for a non-empty token sequence X, combinedScore(X, X) is 1 when X
\* holds two or more distinct tokens and 0.9 when it holds one.
C27_ScoreOfIdentical ==
    (fn = "combinedScore" /\ args[1] = args[2] /\ args[1] # <<>>) =>
        /\ Cardinality(Range(args[1])) >= 2 => value = SCALE
        /\ Cardinality(Range(args[1])) = 1 => 10 * value = 9 * SCALE

\* A one-word line against the identical one-word segment scores 0.9.
C27_Witness ==
    /\ fn = "combinedScore"
    /\ args[1] = << <<"a">> >>
    /\ args[2] = << <<"a">> >>
    /\ 10 * value = 9 * SCALE

\* The pieces of a text between the intervals cut out of it, in reading
\* order; cuts is a set of disjoint intervals <<i, j>> of positions.
PiecesBetween(text, cuts) ==
    LET starts == {1} \cup { c[2] + 1 : c \in cuts }
        endOf(p) == IF \E c \in cuts : c[1] >= p
                    THEN (CHOOSE i \in { c[1] : c \in cuts } :
                             i >= p /\ \A c \in cuts : c[1] >= p => i <= c[1]) - 1
                    ELSE Len(text)
        startAt(k) == CHOOSE p \in starts : Cardinality({ q \in starts : q <= p }) = k
    IN  [k \in 1..Cardinality(starts) |-> SubSeq(text, startAt(k), endOf(startAt(k)))]

\* The newline-separated pieces of a script.
NewlinePieces(text) ==
    PiecesBetween(text, { <<i, i>> : i \in { k \in 1..Len(text) : text[k] = "\n" } })

\* A text without its leading and trailing whitespace.
Trimmed(text) ==
    LET inked == { i \in 1..Len(text) : text[i] \notin WhitespaceChars }
    IN  IF inked = {} THEN <<>>
        ELSE SubSeq(text, CHOOSE i \in inked : \A k \in inked : i <= k,
                          CHOOSE j \in inked : \A k \in inked : j >= k)

\* The sentences of a trimmed text: it is cut at every run of whitespace
\* that follows '.', '!' or '?'.
Sentences(text) ==
    LET after == { i \in 2..Len(text) :
                     text[i] \in WhitespaceChars /\ text[i - 1] \in {".", "!", "?"} }
        runEnd(i) == CHOOSE j \in i..Len(text) :
                        /\ \A k \in i..j : text[k] \in WhitespaceChars
                        /\ j = Len(text) \/ text[j + 1] \notin WhitespaceChars
    IN  PiecesBetween(text, { <<i, runEnd(i)>> : i \in after })

\* Solely 3 or more characters out of - = * _
OnlySeparators(text) ==
    Len(text) >= 3 /\ Range(text) \subseteq {"-", "=", "*", "_"}

\* The trimmed, non-empty members of a sequence of texts.
NonEmptyTrimmed(texts) ==
    SelectSeq([k \in 1..Len(texts) |-> Trimmed(texts[k])], LAMBDA t : t # <<>>)

\* The lines a piece stands for.
LinesOfPiece(piece) ==
    IF Trimmed(piece) = <<>> \/ OnlySeparators(Trimmed(piece)) THEN <<>>
    ELSE IF Len(Trimmed(piece)) > 200 THEN NonEmptyTrimmed(Sentences(Trimmed(piece)))
    ELSE <<Trimmed(piece)>>

RECURSIVE Flatten(_)
Flatten(seqs) == IF seqs = <<>> THEN <<>> ELSE Head(seqs) \o Flatten(Tail(seqs))

\* C26: splitScriptIntoLines returns, in reading order, the trimmed
\* pieces between the newlines of the script, without the pieces that are
\* empty or made of 3 or more separator characters only, a piece longer
\* than 200 characters replaced by its non-empty sentences; every line
\* returned is non-empty and neither starts nor ends with whitespace.
C26_LinesOfScript ==
    fn = "splitScriptIntoLines" =>
        /\ value = Flatten([k \in 1..Len(NewlinePieces(args[1])) |->
                               LinesOfPiece(NewlinePieces(args[1])[k])])
        /\ \A i \in 1..Len(value) :
              /\ value[i] # <<>>
              /\ value[i][1] \notin WhitespaceChars
              /\ value[i][Len(value[i])] \notin WhitespaceChars

\* A separator line, then a line of 206 characters: the first is left
\* out, the second gives its three sentences.
C26_Witness ==
    /\ fn = "splitScriptIntoLines"
    /\ Len(NewlinePieces(args[1])) = 2
    /\ NewlinePieces(args[1])[1] = <<"-", "=", "*", "_">>
    /\ Len(NewlinePieces(args[1])[2]) = 206
    /\ Len(value) = 3
    /\ Len(value[1]) = 200
    /\ value[2] = <<"b", "!">>
    /\ value[3] = <<"c">>

\* The alignments of an edit script and a transcript.
AlignmentsOfProject(project) ==
    { o.result : o \in { x \in alignScriptToTranscript(project.editScript, project.transcript) :
                           x.error = "" } }

\* C28: whenever the stored project.alignment is not null, it is the
\* alignment computed from the project's current editScript and current
\* transcript; and an assembly export answered with 200 was given such an
\* alignment.
C28_AlignmentCurrent ==
    /\ stored.alignment # NoResult => stored.alignment \in AlignmentsOfProject(stored)
    /\ \A i \in 1..Len(handlers) :
          (handlers[i].route = "assembly" /\ handlers[i].code = 200)
              => handlers[i].project.alignment \in AlignmentsOfProject(handlers[i].project)

\* The fields a request changes on purpose, with the values it gives them.
ChangesOf(h) ==
    IF h.route = "put" THEN { <<h.body.field, h.body.val>> }
    ELSE IF h.route = "script" /\ h.body.field = "text" THEN { <<"editScript", h.body.val>> }
    ELSE IF h.route = "transcribe" THEN { <<"transcript", TranscribedAudio>> }
    ELSE IF h.route = "organize" THEN { <<"script", "organized script">> }
    ELSE {}

FieldOf(project, field) ==
    CASE field = "name" -> project.name
      [] field = "script" -> project.script
      [] field = "transcript" -> project.transcript
      [] field = "editScript" -> project.editScript

\* C29: a change of name, script, transcript or editScript whose request
\* was answered with success while a transcribe, organize or align
\* request was in flight is in the stored project once that other request
\* has saved and answered (no request having given the field another
\* value).
C29_NoLostUpdate ==
    \A i \in 1..Len(handlers) : \A j \in handlers[i].inFlight :
        ( /\ handlers[i].code = 200
          /\ handlers[j].route \in {"transcribe", "organize", "align"}
          /\ handlers[j].code = 200 )
        => \A c \in ChangesOf(handlers[i]) :
              (\A k \in 1..Len(handlers) : \A d \in ChangesOf(handlers[k]) :
                   d[1] = c[1] => d[2] = c[2])
                  => FieldOf(stored, c[1]) = c[2]

\* C30: once every transcribe request has been answered, with success or
\* with a 500, the stored status is not 'transcribing'.
C30_TranscribingOnlyInFlight ==
    (\A i \in 1..Len(handlers) : handlers[i].route = "transcribe" => handlers[i].at = "done")
        => stored.status # "transcribing"

====
